---- MODULE Spec2Model ----
(***************************************************************************)
(* State-machine model of the MakerWorld resolver                          *)
(* (kloshi-io/makerworld-api-reverse, src/unnamed/part_008 = makerworld.ts *)
(* and src/src/api.ts).                                                    *)
(*                                                                         *)
(* Strings that the code inspects character by character (URLs, printer    *)
(* names) are sequences of one-character strings; strings the code only    *)
(* copies or compares as a whole (messages, warnings, reason codes) are    *)
(* TLA+ strings.  A nullable value is the empty sequence (null) or a       *)
(* one-element sequence <<v>>.  Hours and grams are integers (the unit is  *)
(* irrelevant to the comparisons the code makes).                          *)
(***************************************************************************)
EXTENDS Integers, Sequences, FiniteSets, TLC

VARIABLES
    pc,             \* position of resolveMakerWorldModel
    call,           \* the arguments of the call: sourceUrl, options.variantId,
                    \* options.request
    norm,           \* result of normalizeSourceUrl, userVariantId
    diagnostics,    \* MakerWorldDiagnostics being built
    outcome,        \* the returned MakerWorldResolveOutcome (Null until returned)
    requests,       \* every network request issued so far, in order
    stage,          \* locals of the running resolveViaApi / resolveViaNextData
    apiResolved,    \* ResolvePipelineResult of the API stage (Null until returned)
    fallbackResolved, \* ResolvePipelineResult of the fallback stage
    fault,          \* history: diagnostics at the moment an internal error was thrown
    fin,            \* finalizeResolvedData applied on its own: input and result
    fetchJson,      \* one fetchApiJson request: options, loop counter, attempts, result
    download,       \* one downloadMakerWorldModelFile call: response, outcome
    compat,         \* isCompatiblePrinterName applied on its own: names and result
    responses,      \* history: the result every settled request of the call got
                    \* (kept only in the specification that observes them)
    dedupe,         \* dedupeVariants applied on its own: candidates and result
    duration,       \* parseDurationHoursByKey applied on its own: key, value, result
    walk            \* visitNodes applied on its own: tree, queue, seen, visited

vars == <<pc, call, norm, diagnostics, outcome, requests, stage,
          apiResolved, fallbackResolved, fault, fin, fetchJson, download, compat,
          responses, dedupe, duration, walk>>

(***************************************************************************)
(* Nullable values                                                         *)
(***************************************************************************)
Null == <<>>
Some(v) == <<v>>
IsNull(x) == x = <<>>
Val(x) == x[1]
\* a ?? b
Coalesce(a, b) == IF a # Null THEN a ELSE b

(***************************************************************************)
(* Character-level string primitives (methods of String)                   *)
(***************************************************************************)
UpperChars == <<"A","B","C","D","E","F","G","H","I","J","K","L","M",
                "N","O","P","Q","R","S","T","U","V","W","X","Y","Z">>
LowerChars == <<"a","b","c","d","e","f","g","h","i","j","k","l","m",
                "n","o","p","q","r","s","t","u","v","w","x","y","z">>
DigitChars == <<"0","1","2","3","4","5","6","7","8","9">>

IsDigit(c) == \E i \in 1..10 : DigitChars[i] = c
DigitValue(c) == (CHOOSE i \in 1..10 : DigitChars[i] = c) - 1
IsLowerAlnum(c) == IsDigit(c) \/ \E i \in 1..26 : LowerChars[i] = c

toLowerCaseChar(c) ==
    IF \E i \in 1..26 : UpperChars[i] = c
    THEN LowerChars[CHOOSE i \in 1..26 : UpperChars[i] = c]
    ELSE c
toLowerCase(s) == [i \in 1..Len(s) |-> toLowerCaseChar(s[i])]

\* s.startsWith(t, i-1): t occurs in s at (1-based) position i
OccursAt(s, t, i) ==
    /\ i >= 1
    /\ i + Len(t) - 1 <= Len(s)
    /\ \A k \in 1..Len(t) : s[i + k - 1] = t[k]
includes(s, t) == \E i \in 1..(Len(s) + 1) : OccursAt(s, t, i)
endsWith(s, t) == Len(t) <= Len(s) /\ OccursAt(s, t, Len(s) - Len(t) + 1)
\* s.indexOf(c) as a 1-based position, 0 when absent
IndexOfChar(s, c) ==
    IF \E i \in 1..Len(s) : s[i] = c
    THEN CHOOSE i \in 1..Len(s) : s[i] = c /\ \A j \in 1..(i - 1) : s[j] # c
    ELSE 0
\* the maximal run of digits of s that starts at position i (regex \d+ / \d*)
RECURSIVE DigitRunEnd(_, _)
DigitRunEnd(s, i) ==
    IF i <= Len(s) /\ IsDigit(s[i]) THEN DigitRunEnd(s, i + 1) ELSE i - 1
DigitRun(s, i) == SubSeq(s, i, DigitRunEnd(s, i))
\* Number("<digits>")
RECURSIVE NumberOfDigits(_)
NumberOfDigits(d) ==
    IF d = <<>> THEN 0
    ELSE 10 * NumberOfDigits(SubSeq(d, 1, Len(d) - 1)) + DigitValue(d[Len(d)])

(***************************************************************************)
(* URL normalization                                                       *)
(***************************************************************************)
InvalidUrlMessage == "MakerWorld model page URL is required."
NoDesignIdMessage == "Could not extract MakerWorld design ID from URL."

\* new URL(input): the components the resolver reads.  An input without a
\* scheme, or an http(s) input without a host, is rejected (the constructor
\* throws); scheme and host are lower-cased; an empty path becomes "/".
RestAfter(s, i) == SubSeq(s, i + 1, Len(s))
CutAtFirst(s, stops) ==
    IF \E i \in 1..Len(s) : s[i] \in stops
    THEN (CHOOSE i \in 1..Len(s) : s[i] \in stops /\ \A j \in 1..(i - 1) : s[j] \notin stops) - 1
    ELSE Len(s)
ParseUrl(input) ==
    LET build(scheme, host, rawPath, rawSearch, rawHash) ==
            [ok |-> TRUE,
             protocol |-> scheme \o <<":">>,
             hostname |-> host,
             pathname |-> IF rawPath = <<>> THEN <<"/">> ELSE rawPath,
             search |-> IF Len(rawSearch) <= 1 THEN <<>> ELSE rawSearch,
             hash |-> IF Len(rawHash) <= 1 THEN <<>> ELSE rawHash]
        cutSearch(scheme, host, rawPath, afterPath, searchLen) ==
            build(scheme, host, rawPath,
                  SubSeq(afterPath, 1, searchLen), RestAfter(afterPath, searchLen))
        cutPath(scheme, host, afterHost, pathLen) ==
            cutSearch(scheme, host, SubSeq(afterHost, 1, pathLen),
                      RestAfter(afterHost, pathLen),
                      CutAtFirst(RestAfter(afterHost, pathLen), {"#"}))
        cutHost(scheme, afterSlashes, hostLen) ==
            IF hostLen = 0 THEN [ok |-> FALSE]
            ELSE cutPath(scheme, toLowerCase(SubSeq(afterSlashes, 1, hostLen)),
                         RestAfter(afterSlashes, hostLen),
                         CutAtFirst(RestAfter(afterSlashes, hostLen), {"?", "#"}))
        cutScheme(scheme, rest) ==
            IF \/ scheme = <<>>
               \/ \E i \in 1..Len(scheme) : \A k \in 1..26 : LowerChars[k] # scheme[i]
               \/ ~OccursAt(rest, <<"/", "/">>, 1)
            THEN [ok |-> FALSE]
            ELSE cutHost(scheme, RestAfter(rest, 2),
                         CutAtFirst(RestAfter(rest, 2), {"/", "?", "#"}))
        cutColon(colon) ==
            IF colon = 0 THEN [ok |-> FALSE]
            ELSE cutScheme(toLowerCase(SubSeq(input, 1, colon - 1)),
                           RestAfter(input, colon))
    IN  cutColon(IndexOfChar(input, ":"))

\* URL.prototype.toString() of a parsed URL
UrlToString(u) ==
    u.protocol \o <<"/", "/">> \o u.hostname \o u.pathname \o u.search \o u.hash

MakerworldHost == <<"m","a","k","e","r","w","o","r","l","d",".","c","o","m">>
DotMakerworldHost == <<".">> \o MakerworldHost
SlashModel == <<"/","m","o","d","e","l">>
HashProfileIdToken == <<"p","r","o","f","i","l","e","i","d","-">>

\* /\/models?\//i.test(pathname)
HasModelsSegment(pathname) ==
    LET p == toLowerCase(pathname)
    IN  \/ includes(p, SlashModel \o <<"/">>)
        \/ includes(p, SlashModel \o <<"s", "/">>)

\* pathname.match(/\/models?\/(\d+)/i): the captured digits of the leftmost
\* match, Null when there is no match
ModelsIdMatchAt(p, i) ==
    \/ /\ OccursAt(p, SlashModel \o <<"s", "/">>, i)
       /\ DigitRun(p, i + 8) # <<>>
    \/ /\ OccursAt(p, SlashModel \o <<"/">>, i)
       /\ DigitRun(p, i + 7) # <<>>
DesignMatch(pathname) ==
    LET p == toLowerCase(pathname)
        hits == {i \in 1..Len(p) : ModelsIdMatchAt(p, i)}
    IN  IF hits = {} THEN Null
        ELSE LET i == CHOOSE h \in hits : \A g \in hits : h <= g
             IN  Some(IF OccursAt(p, SlashModel \o <<"s", "/">>, i)
                      THEN DigitRun(p, i + 8)
                      ELSE DigitRun(p, i + 7))

\* hash.match(/profileid-(\d+)/i)
HashMatch(hash) ==
    LET h == toLowerCase(hash)
        hits == {i \in 1..Len(h) :
                    /\ OccursAt(h, HashProfileIdToken, i)
                    /\ DigitRun(h, i + Len(HashProfileIdToken)) # <<>>}
    IN  IF hits = {} THEN Null
        ELSE LET i == CHOOSE x \in hits : \A g \in hits : x <= g
             IN  Some(DigitRun(h, i + Len(HashProfileIdToken)))

\* host === "makerworld.com" || host.endsWith(".makerworld.com")
isMakerworldHostBySuffix(host) == endsWith(host, MakerworldHost)
isMakerworldHost(host) ==
    host = MakerworldHost \/ endsWith(host, DotMakerworldHost)

normalizeSourceUrl(input) ==
    LET invalid(msg) == [ok |-> FALSE, reasonCode |-> "invalid_url", message |-> msg]
        accept(parsed, designId, requestedVariantId) ==
            [ok |-> TRUE,
             normalized |-> UrlToString([parsed EXCEPT !.hash = <<>>]),
             designId |-> designId,
             requestedVariantId |->
                 IF requestedVariantId # Null /\ Val(requestedVariantId) > 0
                 THEN requestedVariantId ELSE Null]
        extract(parsed, designMatch, hashMatch) ==
            IF designMatch = Null \/ NumberOfDigits(Val(designMatch)) <= 0
            THEN invalid(NoDesignIdMessage)
            ELSE accept(parsed, NumberOfDigits(Val(designMatch)),
                        IF hashMatch # Null THEN Some(NumberOfDigits(Val(hashMatch)))
                        ELSE Null)
        validate(parsed) ==
            IF ~parsed.ok THEN invalid(InvalidUrlMessage)
            ELSE IF \/ parsed.protocol # <<"h", "t", "t", "p", "s", ":">>
                    \/ ~isMakerworldHost(toLowerCase(parsed.hostname))
            THEN invalid(InvalidUrlMessage)
            ELSE IF ~HasModelsSegment(parsed.pathname)
            THEN invalid(InvalidUrlMessage)
            ELSE extract(parsed, DesignMatch(parsed.pathname), HashMatch(parsed.hash))
    IN  validate(ParseUrl(input))

\* The source URLs the calls are made with.
HttpsScheme == <<"h","t","t","p","s",":","/","/">>
HttpScheme == <<"h","t","t","p",":","/","/">>
ModelsPath == <<"/","e","n","/","m","o","d","e","l","s","/","1","2","-","x">>
ProfileIdHash == <<"#","p","r","o","f","i","l","e","I","d","-">>
ValidSourceUrls ==
    { HttpsScheme \o MakerworldHost \o ModelsPath,
      HttpsScheme \o MakerworldHost \o ModelsPath \o ProfileIdHash \o <<"1">>,
      HttpsScheme \o <<"w", "w", "w">> \o DotMakerworldHost
          \o SlashModel \o <<"/", "7", "?", "a">> \o ProfileIdHash \o <<"2">>,
      HttpsScheme \o MakerworldHost \o ModelsPath \o ProfileIdHash \o <<"0">> }
InvalidSourceUrls ==
    { <<"n","o","t"," ","a"," ","u","r","l">>,
      HttpScheme \o MakerworldHost \o ModelsPath,
      HttpsScheme \o <<"e", "v", "i", "l">> \o MakerworldHost \o ModelsPath,
      HttpsScheme \o MakerworldHost \o <<".", "e", "v", "i", "l", ".", "i", "o">> \o ModelsPath,
      HttpsScheme \o MakerworldHost \o <<"/","e","n","/","c","o","l","l","e","c","t","i","o","n","s","/","1","2">>,
      HttpsScheme \o MakerworldHost \o <<"/","e","n","/","m","o","d","e","l","s","/","a","b","c">>,
      HttpsScheme \o MakerworldHost \o <<"/","e","n","/","m","o","d","e","l","s","/","0","-","x">> \o ProfileIdHash \o <<"1">>,
      HttpsScheme \o MakerworldHost \o SlashModel \o <<"s">> }
SourceUrls == ValidSourceUrls \cup InvalidSourceUrls

(***************************************************************************)
(* Printer compatibility                                                   *)
(***************************************************************************)
\* constants.ts is not part of the sources; the documented target is P2S.
PRINTER_MODEL == <<"P","2","S">>

TokP2s == <<"p","2","s">>
TokP1s == <<"p","1","s">>
TokP1p == <<"p","1","p">>
TokX1c == <<"x","1","c">>
TokX1carbon == <<"x","1","c","a","r","b","o","n">>
TokA1mini == <<"a","1","m","i","n","i">>
TokA1 == <<"a","1">>
BambuLab == <<"b","a","m","b","u","l","a","b">>

normalizePrinterName(input) ==
    LET normalized == SelectSeq(toLowerCase(input), IsLowerAlnum)
    IN  IF includes(normalized, TokP2s) THEN BambuLab \o TokP2s
        ELSE IF includes(normalized, TokP1s) THEN BambuLab \o TokP1s
        ELSE IF includes(normalized, TokP1p) THEN BambuLab \o TokP1p
        ELSE IF includes(normalized, TokX1c) \/ includes(normalized, TokX1carbon)
             THEN BambuLab \o TokX1c
        ELSE IF includes(normalized, TokA1mini) THEN BambuLab \o TokA1mini
        ELSE IF includes(normalized, TokA1) THEN BambuLab \o TokA1
        ELSE normalized

corexyCluster ==
    { BambuLab \o TokP2s, BambuLab \o TokP1s, BambuLab \o TokP1p,
      BambuLab \o TokX1c, BambuLab \o TokX1carbon }

getCompatibleNormalizedPrintersExactOnly(configuredPrinter) == {normalizePrinterName(configuredPrinter)}
getCompatibleNormalizedPrinters(configuredPrinter) ==
    LET normalized == normalizePrinterName(configuredPrinter)
    IN  IF normalized \in corexyCluster
        THEN {normalized} \cup corexyCluster
        ELSE {normalized}

isCompatiblePrinterName(candidatePrinter, configuredPrinter) ==
    LET compatible == getCompatibleNormalizedPrinters(configuredPrinter)
        normalizedCandidate == normalizePrinterName(candidatePrinter)
    IN  IF normalizedCandidate = <<>> THEN FALSE
        ELSE IF normalizedCandidate \in compatible THEN TRUE
        ELSE \E alias \in compatible :
                \/ includes(normalizedCandidate, alias)
                \/ includes(alias, normalizedCandidate)

(***************************************************************************)
(* Variant selection engine                                                *)
(***************************************************************************)
WarnInferred == "Printer compatibility inferred from explicitly selected MakerWorld variant."
WarnRelaxed == "Printer compatibility could not be verified strictly. Using the best available MakerWorld variant."
WarnRequestedUnavailable == "Requested MakerWorld variant was unavailable. Used the best available variant."
WarnSelectedUnavailable == "Selected MakerWorld variant was unavailable. Used the best available variant."
MsgIncomplete == "MakerWorld profile data is incomplete for this model."
MsgMetricsUnavailable == "MakerWorld profile metrics are unavailable for the selected model."

\* [...new Set(items)]: first occurrences, in order
RECURSIVE DedupeSeq(_)
DedupeSeq(items) ==
    IF items = <<>> THEN <<>>
    ELSE LET front == DedupeSeq(SubSeq(items, 1, Len(items) - 1))
             last == items[Len(items)]
         IN  IF \E i \in 1..Len(front) : front[i] = last THEN front
             ELSE Append(front, last)

\* Number(x.toFixed(4)); hours and grams are counted in 1/100000 of a unit
ToFixed4(x) == ((x + 5) \div 10) * 10

\* A metric is null or a finite number: typeof/isFinite hold of every number
hasCompleteMetricsOnlyHours(variant) ==
    /\ variant.estimatedHours # Null
    /\ Val(variant.estimatedHours) > 0
hasCompleteMetrics(variant) ==
    /\ variant.estimatedHours # Null
    /\ Val(variant.estimatedHours) > 0
    /\ variant.estimatedGrams # Null
    /\ Val(variant.estimatedGrams) > 0

\* the comparator of scoreAndSortVariants: its sign; null sorts as +Infinity
CompareVariantsHoursOnly(a, b) ==
    LET less(x, y) == x # Null /\ (y = Null \/ Val(x) < Val(y))
    IN  IF a.estimatedHours # b.estimatedHours
        THEN IF less(a.estimatedHours, b.estimatedHours) THEN -1 ELSE 1
        ELSE 0
CompareVariants(a, b) ==
    LET less(x, y) == x # Null /\ (y = Null \/ Val(x) < Val(y))
    IN  IF a.estimatedHours # b.estimatedHours
        THEN IF less(a.estimatedHours, b.estimatedHours) THEN -1 ELSE 1
        ELSE IF less(a.estimatedGrams, b.estimatedGrams) THEN -1
        ELSE IF less(b.estimatedGrams, a.estimatedGrams) THEN 1
        ELSE 0

\* Array.prototype.sort is stable: x goes behind every element not greater
InsertSortedAtEnd(sorted, x) == Append(sorted, x)
InsertSorted(sorted, x) ==
    LET behind == {i \in 1..Len(sorted) : CompareVariants(x, sorted[i]) < 0}
        at == IF behind = {} THEN Len(sorted) + 1
              ELSE CHOOSE i \in behind : \A j \in behind : i <= j
    IN  SubSeq(sorted, 1, at - 1) \o <<x>> \o SubSeq(sorted, at, Len(sorted))
RECURSIVE scoreAndSortVariants(_)
scoreAndSortVariants(variants) ==
    IF variants = <<>> THEN <<>>
    ELSE InsertSorted(scoreAndSortVariants(SubSeq(variants, 1, Len(variants) - 1)),
                      variants[Len(variants)])

\* variants.find(...) ?? null: Null or <<the first match>>
findVariantByVariantIdOnly(variants, requestedId) ==
    LET hits == {i \in 1..Len(variants) : variants[i].variantId = Some(requestedId)}
    IN  IF hits = {} THEN Null
        ELSE Some(variants[CHOOSE i \in hits : \A j \in hits : i <= j])
findVariantByRequestedId(variants, requestedId) ==
    LET hits == {i \in 1..Len(variants) :
                    \/ variants[i].variantId = Some(requestedId)
                    \/ variants[i].profileId = Some(requestedId)}
    IN  IF hits = {} THEN Null
        ELSE Some(variants[CHOOSE i \in hits : \A j \in hits : i <= j])

TokPetg == <<"p","e","t","g">>
TokPla == <<"p","l","a">>
UnknownText == <<"u","n","k","n","o","w","n">>
mapMakerWorldMaterial(raw) ==
    LET normalized == toLowerCase(raw)
    IN  IF includes(normalized, TokPetg) THEN "PETG"
        ELSE IF includes(normalized, TokPla) THEN "PLA"
        ELSE "other_request"

toAvailableVariant(variant) ==
    [variantId |-> variant.variantId,
     profileId |-> variant.profileId,
     name |-> variant.name,
     printer |-> variant.printer,
     material |-> variant.material,
     estimatedHours |-> ToFixed4(Val(Coalesce(variant.estimatedHours, Some(0)))),
     estimatedGrams |-> ToFixed4(Val(Coalesce(variant.estimatedGrams, Some(0))))]

\* input.requestedVariantId ?? input.userVariantId
explicitRequestedIdUserFirst(requestedVariantId, userVariantId) ==
    Coalesce(userVariantId, requestedVariantId)
explicitRequestedIdOf(requestedVariantId, userVariantId) ==
    Coalesce(requestedVariantId, userVariantId)

\* the candidate pool: the strict one, else the explicitly requested
\* candidate alone, else every candidate with metrics
selectCandidatePoolKeepsAll(strictWithMetrics, explicitRequestedWithMetrics, variantsWithMetrics) ==
    IF strictWithMetrics # <<>> THEN strictWithMetrics ELSE variantsWithMetrics
selectCandidatePool(strictWithMetrics, explicitRequestedWithMetrics, variantsWithMetrics) ==
    IF strictWithMetrics # <<>> THEN strictWithMetrics
    ELSE IF explicitRequestedWithMetrics # Null
         THEN <<Val(explicitRequestedWithMetrics)>>
         ELSE variantsWithMetrics

\* finalizeResolvedData from the check of the selected candidate to its
\* return.  (fileOriginalName, sourceKind and sourceProvider are not
\* modelled: the first is the basename of downloadUrl, the others are
\* literals.)
finalizeSelected(input, available, selected, selectionStrategy, warnings, resolutionMode, resolutionConfidence) ==
    IF selected = Null \/ ~hasCompleteMetrics(Val(selected))
    THEN [ok |-> FALSE, reasonCode |-> "missing_profile_metrics",
          message |-> MsgMetricsUnavailable, warnings |-> warnings]
    ELSE LET build(sel, materialLabel) ==
                 [ok |-> TRUE,
                  warnings |-> warnings,
                  data |->
                    [sourceUrl |-> input.sourceUrl,
                     sourceModelTitle |-> input.sourceModelTitle,
                     downloadUrl |-> sel.downloadUrl,
                     selectedVariantId |-> Coalesce(sel.variantId, sel.profileId),
                     selectedProfileId |-> Coalesce(sel.profileId, sel.variantId),
                     selectionStrategy |-> selectionStrategy,
                     availableVariants |->
                        [i \in 1..Len(available) |-> toAvailableVariant(available[i])],
                     importWarnings |-> DedupeSeq(warnings),
                     profileResolutionMode |-> resolutionMode,
                     profileResolutionConfidence |-> resolutionConfidence,
                     sourceProfileId |-> Coalesce(sel.profileId, sel.variantId),
                     sourceProfileName |-> sel.name,
                     sourceProfilePrinter |-> sel.printer,
                     sourceProfileMaterial |-> materialLabel,
                     sourceProfileEstimatedGrams |->
                        ToFixed4(Val(Coalesce(sel.estimatedGrams, Some(0)))),
                     sourceProfileEstimatedHours |->
                        ToFixed4(Val(Coalesce(sel.estimatedHours, Some(0)))),
                     sourceProfilePayload |-> sel.payload,
                     sourceSettingsSummary |-> sel.settingsSummary,
                     lockedMaterial |-> mapMakerWorldMaterial(materialLabel)]]
         IN  build(Val(selected),
                   IF Val(selected).material = <<>> THEN UnknownText
                   ELSE Val(selected).material)

\* finalizeResolvedData from the sort of the pool on: the selection by the
\* hash id, else by the caller's id, else of the first entry
selectFromPool(input, sortedPool, warnings, resolutionMode, resolutionConfidence) ==
    LET pick(requested, userSelected) ==
            finalizeSelected(input,
                SelectSeq(sortedPool, hasCompleteMetrics),
                IF requested # Null THEN requested
                ELSE IF userSelected # Null THEN userSelected
                ELSE IF sortedPool = <<>> THEN Null ELSE Some(sortedPool[1]),
                IF requested # Null THEN "requested_variant_id"
                ELSE IF userSelected # Null THEN "user_selected_variant"
                ELSE "shortest_time_fallback",
                IF input.requestedVariantId # Null
                THEN IF requested # Null THEN warnings
                     ELSE Append(warnings, WarnRequestedUnavailable)
                ELSE IF input.userVariantId # Null
                THEN IF userSelected # Null THEN warnings
                     ELSE Append(warnings, WarnSelectedUnavailable)
                ELSE warnings,
                resolutionMode, resolutionConfidence)
    IN  pick(IF input.requestedVariantId # Null
             THEN findVariantByRequestedId(sortedPool, Val(input.requestedVariantId))
             ELSE Null,
             IF input.requestedVariantId = Null /\ input.userVariantId # Null
             THEN findVariantByRequestedId(sortedPool, Val(input.userVariantId))
             ELSE Null)

\* finalizeResolvedData from the choice of the pool to the sort
resolveCandidatePool(input, strictWithMetrics, explicitRequestedWithMetrics, variantsWithMetrics) ==
    LET withPool(candidatePool, inferred, relaxed) ==
            IF candidatePool = <<>>
            THEN [ok |-> FALSE, reasonCode |-> "missing_profile_metrics",
                  message |-> MsgIncomplete,
                  warnings |-> IF inferred THEN Append(input.warnings, WarnInferred)
                               ELSE input.warnings]
            ELSE selectFromPool(input,
                    scoreAndSortVariants(candidatePool),
                    IF inferred THEN Append(input.warnings, WarnInferred)
                    ELSE IF relaxed THEN Append(input.warnings, WarnRelaxed)
                    ELSE input.warnings,
                    IF relaxed THEN "relaxed_printer" ELSE "strict",
                    IF relaxed THEN "medium" ELSE "high")
    IN  withPool(selectCandidatePool(strictWithMetrics, explicitRequestedWithMetrics,
                                     variantsWithMetrics),
                 strictWithMetrics = <<>> /\ explicitRequestedWithMetrics # Null,
                 strictWithMetrics = <<>> /\ explicitRequestedWithMetrics = Null)

\* the explicitly requested candidate among those with metrics, if any
findExplicitRequested(variantsWithMetrics, explicitRequestedId) ==
    IF explicitRequestedId # Null
    THEN findVariantByRequestedId(variantsWithMetrics, Val(explicitRequestedId))
    ELSE Null

\* input: sourceUrl, sourceModelTitle, requestedVariantId, userVariantId,
\* variants, warnings.  The result is a ResolvePipelineResult.
finalizeResolvedData(input) ==
    resolveCandidatePool(input,
        SelectSeq(SelectSeq(input.variants,
                      LAMBDA v : isCompatiblePrinterName(v.printer, PRINTER_MODEL)),
                  hasCompleteMetrics),
        findExplicitRequested(SelectSeq(input.variants, hasCompleteMetrics),
            explicitRequestedIdOf(input.requestedVariantId, input.userVariantId)),
        SelectSeq(input.variants, hasCompleteMetrics))

(***************************************************************************)
(* finalizeResolvedData on its own: the candidate lists it is given        *)
(***************************************************************************)
MaxVariants == 2

PrinterP2S == <<"B","a","m","b","u"," ","L","a","b"," ","P","2","S">>
PrinterOther == <<"P","r","u","s","a"," ","M","K","4">>
MaterialPla == <<"P","L","A"," ","B","a","s","i","c">>
VariantName == <<"V","a","r","i","a","n","t">>
ModelTitle == "Model title"

\* (variantId, profileId) of the candidates: id 2 is the profileId of one
\* candidate and the variantId of another, one candidate has no variantId
FinIdPairs ==
    { <<Some(1), Some(2)>>, <<Some(2), Null>>, <<Null, Some(3)>> }
\* (estimatedHours, estimatedGrams): incomplete either way, equal hours with
\* different grams, different hours
FinMetrics ==
    { <<Null, Some(10)>>, <<Some(10), Null>>,
      <<Some(10), Some(10)>>, <<Some(10), Some(20)>>, <<Some(20), Some(10)>> }
FinRequestedIds == {Null, Some(1), Some(2)}

MakeCandidate(ids, printer, metrics) ==
    [variantId |-> ids[1],
     profileId |-> ids[2],
     name |-> VariantName,
     printer |-> printer,
     material |-> MaterialPla,
     estimatedHours |-> metrics[1],
     estimatedGrams |-> metrics[2],
     payload |-> <<Val(Coalesce(ids[1], ids[2]))>>,
     settingsSummary |-> <<>>,
     downloadUrl |-> Null]

FinCandidates ==
    { MakeCandidate(ids, printer, metrics) :
        ids \in FinIdPairs, printer \in {PrinterP2S, PrinterOther}, metrics \in FinMetrics }

\* the key dedupeVariants keeps one candidate of
DedupeKey(variant) ==
    <<Coalesce(variant.variantId, variant.profileId), toLowerCase(variant.name)>>

\* every list of at most n elements of the universe
RECURSIVE ListsUpTo(_, _)
ListsUpTo(universe, n) ==
    IF n = 0 THEN {<<>>}
    ELSE LET shorter == ListsUpTo(universe, n - 1)
         IN  shorter \cup
             { Append(l, c) : l \in {x \in shorter : Len(x) = n - 1},
                              c \in universe }
\* candidate lists as dedupeVariants leaves them: no key twice
RECURSIVE DedupedLists(_, _)
DedupedLists(universe, n) ==
    IF n = 0 THEN {<<>>}
    ELSE LET shorter == DedupedLists(universe, n - 1)
             longest == {x \in shorter : Len(x) = n - 1}
         IN  shorter \cup
             { Append(e[1], e[2]) :
                 e \in { p \in longest \X universe :
                           \A i \in 1..Len(p[1]) : DedupeKey(p[1][i]) # DedupeKey(p[2]) } }

FinInputs(n) ==
    { [sourceUrl |-> HttpsScheme \o MakerworldHost \o ModelsPath,
       sourceModelTitle |-> ModelTitle,
       requestedVariantId |-> r,
       userVariantId |-> u,
       variants |-> l,
       warnings |-> <<>>] :
        r \in FinRequestedIds, u \in FinRequestedIds,
        l \in DedupedLists(FinCandidates, n) }

FinIdle == [pc |-> "idle"]
FetchIdle == [pc |-> "idle"]
DownloadIdle == [pc |-> "idle"]
CompatIdle == [pc |-> "idle"]
DedupeIdle == [pc |-> "idle"]
DurationIdle == [pc |-> "idle"]
WalkIdle == [pc |-> "idle"]

FinalizeStep ==
    /\ fin.pc = "ready"
    /\ fin' = [fin EXCEPT !.pc = "done",
                          !.result = finalizeResolvedData(fin.input)]
    /\ UNCHANGED <<fetchJson, download, compat, responses>>
    /\ UNCHANGED <<dedupe, duration, walk>>
    /\ UNCHANGED <<pc, call, norm, diagnostics, outcome, requests, stage,
                   apiResolved, fallbackResolved, fault>>

(***************************************************************************)
(* Candidate extraction, deduplication and profile enrichment              *)
(***************************************************************************)
\* A raw payload node is modelled by the fields the extract* heuristics read
\* from it; a node without any id is not variant-like.
toVariantCandidate(raw) ==
    IF raw.variantId = Null /\ raw.profileId = Null THEN Null ELSE Some(raw)

\* instanceSource.map(toVariantCandidate).filter(item => !!item)
RECURSIVE MapToCandidates(_)
MapToCandidates(items) ==
    IF items = <<>> THEN <<>>
    ELSE LET c == toVariantCandidate(items[1])
             rest == MapToCandidates(Tail(items))
         IN  IF c = Null THEN rest ELSE <<Val(c)>> \o rest

VariantScoreMetricsOnly(variant) == IF hasCompleteMetrics(variant) THEN 1 ELSE 0
VariantScore(variant) ==
    (IF hasCompleteMetrics(variant) THEN 1 ELSE 0)
    + (IF variant.downloadUrl # Null THEN 1 ELSE 0)

\* a Map keeps the position of a key's first insertion
RECURSIVE dedupeVariants(_)
dedupeVariants(variants) ==
    IF variants = <<>> THEN <<>>
    ELSE LET map == dedupeVariants(SubSeq(variants, 1, Len(variants) - 1))
             variant == variants[Len(variants)]
             same == {i \in 1..Len(map) : DedupeKey(map[i]) = DedupeKey(variant)}
         IN  IF same = {} THEN Append(map, variant)
             ELSE LET i == CHOOSE x \in same : TRUE
                  IN  IF VariantScore(variant) > VariantScore(map[i])
                      THEN [map EXCEPT ![i] = variant]
                      ELSE map

\* maybeEnrichWithProfile, the part before the request
needsProfile(candidate) ==
    /\ candidate.profileId # Null
    /\ ~(/\ hasCompleteMetrics(candidate)
         /\ candidate.printer # UnknownText
         /\ candidate.material # UnknownText)

\* maybeEnrichWithProfile, the part after the request.  profileResult is the
\* fetchProfile result; its data is modelled by what the extract* heuristics
\* read from it.
mergeProfileOverwrites(candidate, profileResult) ==
    IF ~profileResult.ok \/ ~profileResult.data.isRecord THEN candidate
    ELSE [candidate EXCEPT
            !.printer = profileResult.data.printer,
            !.material = profileResult.data.material,
            !.estimatedHours = Coalesce(profileResult.data.estimatedHours, @),
            !.estimatedGrams = Coalesce(profileResult.data.estimatedGrams, @),
            !.settingsSummary = profileResult.data.settingsSummary,
            !.downloadUrl = Coalesce(profileResult.data.downloadUrl, @),
            !.payload = candidate.payload \o <<profileResult.data.tag>>]
mergeProfile(candidate, profileResult) ==
    IF ~profileResult.ok \/ ~profileResult.data.isRecord THEN candidate
    ELSE [candidate EXCEPT
            !.printer = IF candidate.printer # UnknownText THEN candidate.printer
                        ELSE profileResult.data.printer,
            !.material = IF candidate.material # UnknownText THEN candidate.material
                         ELSE profileResult.data.material,
            !.estimatedHours = Coalesce(candidate.estimatedHours,
                                        profileResult.data.estimatedHours),
            !.estimatedGrams = Coalesce(candidate.estimatedGrams,
                                        profileResult.data.estimatedGrams),
            !.settingsSummary = IF candidate.settingsSummary # <<>>
                                THEN candidate.settingsSummary
                                ELSE profileResult.data.settingsSummary,
            !.downloadUrl = Coalesce(candidate.downloadUrl,
                                     profileResult.data.downloadUrl),
            !.payload = candidate.payload \o <<profileResult.data.tag>>]

(***************************************************************************)
(* Upstream responses                                                      *)
(***************************************************************************)
MaxInstances == 2

apiOk(data) == [ok |-> TRUE, data |-> data]
apiErr(reasonCode, message) ==
    [ok |-> FALSE, error |-> [reasonCode |-> reasonCode, message |-> message]]

(***************************************************************************)
(* fetchApiJson: the options of one design-service request.  A JavaScript  *)
(* number is a count of tenths (so that Math.trunc has something to cut)   *)
(* or not finite (NaN, Infinity); an option left out is Null.              *)
(***************************************************************************)
API_TIMEOUT_MS == 8000
API_RETRY_COUNT == 1
API_HEADERS ==
    ("user-agent" :> "3d-printing-service/1.0") @@
    ("accept" :> "application/json,text/plain,*/*") @@
    ("x-bbl-client-type" :> "web") @@
    ("x-bbl-client-version" :> "00.00.00.01") @@
    ("x-bbl-app-source" :> "makerworld") @@
    ("x-bbl-client-name" :> "MakerWorld")

JsNumber(tenths) == [finite |-> TRUE, tenths |-> tenths]
NotFinite == [finite |-> FALSE, tenths |-> 0]
Whole(n) == JsNumber(n * 10)
trunc(x) == IF x.tenths >= 0 THEN x.tenths \div 10 ELSE -((-x.tenths) \div 10)
Max(a, b) == IF a >= b THEN a ELSE b

OptionOf(options, field) == IF options = Null THEN Null ELSE Val(options)[field]

\* const timeoutMs = ... : the caller's value when it is a finite number
\* above zero, else the default
timeoutMsOf(options) ==
    LET given == OptionOf(options, "timeoutMs")
    IN  IF given # Null /\ Val(given).finite /\ Val(given).tenths > 0
        THEN Val(given) ELSE Whole(API_TIMEOUT_MS)

\* const retries = ... : the caller's finite value, truncated and not below
\* zero, else the default
retriesOfUnclamped(options) ==
    LET given == OptionOf(options, "retries")
    IN  IF given # Null /\ Val(given).finite
        THEN trunc(Val(given)) ELSE API_RETRY_COUNT
retriesOf(options) ==
    LET given == OptionOf(options, "retries")
    IN  IF given # Null /\ Val(given).finite
        THEN Max(0, trunc(Val(given))) ELSE API_RETRY_COUNT

\* const headers = { ...API_HEADERS, ...(options?.headers ?? {}) }
headersOfDefaultsWin(options) ==
    LET given == OptionOf(options, "headers")
    IN  IF given = Null THEN API_HEADERS ELSE API_HEADERS @@ Val(given)
headersOf(options) ==
    LET given == OptionOf(options, "headers")
    IN  IF given = Null THEN API_HEADERS ELSE Val(given) @@ API_HEADERS

\* options.request of a resolve call: none; those of the forwarding test; a
\* timeout that is not above zero, a fractional retry count and a header
\* that replaces a default one
RequestOptions ==
    { Null,
      Some([timeoutMs |-> Some(Whole(3000)), retries |-> Some(Whole(1)),
            headers |-> Some("x-mw-test-client" :> "enabled")]),
      Some([timeoutMs |-> Some(Whole(0)), retries |-> Some(JsNumber(25)),
            headers |-> Some("user-agent" :> "custom-agent/2.0")]) }

\* the failures fetchApiJson ends with (mapHttpStatus, empty or invalid
\* body, network failure after the last attempt)
ApiErrors ==
    { apiErr("not_found", "MakerWorld resource was not found."),
      apiErr("upstream_blocked", "MakerWorld blocked the request (403)."),
      apiErr("timeout", "MakerWorld API request timed out."),
      apiErr("malformed_payload", "MakerWorld API returned invalid JSON."),
      apiErr("network_error", "MakerWorld API request failed (500).") }

\* candidates in upstream payloads: complete and compatible; no metrics and
\* no printer but a profile to ask; incompatible printer, no grams, a
\* settings summary, a download URL and a profile to ask; a node without ids
RawCompatible ==
    [MakeCandidate(<<Some(1), Null>>, PrinterP2S, <<Some(20), Some(10)>>)
        EXCEPT !.downloadUrl = Some("https://makerworld.cdn/files/one.3mf")]
RawUnknown ==
    MakeCandidate(<<Some(2), Some(5)>>, UnknownText, <<Null, Null>>)
RawOtherPrinter ==
    [MakeCandidate(<<Some(3), Some(6)>>, PrinterOther, <<Some(10), Null>>)
        EXCEPT !.settingsSummary = <<"nozzleMm">>,
               !.downloadUrl = Some("https://makerworld.cdn/files/other.3mf")]
RawNotVariantLike ==
    [MakeCandidate(<<Some(9), Null>>, UnknownText, <<Null, Null>>)
        EXCEPT !.variantId = Null]
RawItems == {RawCompatible, RawUnknown, RawOtherPrinter, RawNotVariantLike}

\* a JSON payload: its title and the array extractInstancesFromPayload finds
Payloads ==
    { [isRecord |-> TRUE, title |-> ModelTitle, items |-> l] :
        l \in ListsUpTo(RawItems, MaxInstances) }
DesignPayloads ==
    { [isRecord |-> TRUE, title |-> "Design title", items |-> l] :
        l \in {<<>>, <<RawCompatible>>} }

\* a /profile/{id} payload: what the extract* heuristics read from it
ProfileFull ==
    [isRecord |-> TRUE, tag |-> "profile",
     printer |-> PrinterP2S, material |-> MaterialPla,
     estimatedHours |-> Some(30), estimatedGrams |-> Some(30),
     settingsSummary |-> <<"layerHeightMm">>,
     downloadUrl |-> Some("https://makerworld.cdn/files/profile.3mf")]
ProfileBare ==
    [isRecord |-> TRUE, tag |-> "profile",
     printer |-> UnknownText, material |-> UnknownText,
     estimatedHours |-> Null, estimatedGrams |-> Null,
     settingsSummary |-> <<>>, downloadUrl |-> Null]
\* a JSON array that holds a full profile: not a record
ProfileArray == [ProfileFull EXCEPT !.isRecord = FALSE, !.tag = "array"]
ProfileResults ==
    { apiOk(ProfileFull), apiOk(ProfileBare), apiOk(ProfileArray),
      apiErr("upstream_blocked", "MakerWorld blocked the request (403).") }

\* /instance/{id}/f3mf and /design/{id}/model: chooseDownloadUrl of the data
DownloadResults(url) ==
    { apiOk([downloadUrl |-> Some(url)]), apiOk([downloadUrl |-> Null]),
      apiErr("not_found", "MakerWorld resource was not found.") }

\* the model page fetch: the fetch is aborted, answers a non-2xx status, or
\* delivers HTML with or without a parseable __NEXT_DATA__ script
PageResults ==
    { [kind |-> "abort"], [kind |-> "status"] }
    \cup { [kind |-> "html", nextData |-> Null] }
    \cup { [kind |-> "html", nextData |-> Some(p)] : p \in Payloads }

(***************************************************************************)
(* resolveMakerWorldModel                                                  *)
(***************************************************************************)
GenericFailureMessage == "Could not import MakerWorld profile. Please upload STL/OBJ/3MF."
RecoveredWarning == "Resolver recovered from an unexpected internal error."
InternalErrorMessage == "unexpected internal error"

VariantIdOptions == {Null, Some(0), Some(3)}

NoStage == [kind |-> "none"]
\* the options a request of the call is made with: the design-service
\* requests get options.request, the page fetch has none
forwardedRequestOptions(kind) == IF kind = "page" THEN Null ELSE call.request
Request(kind, arg) ==
    [kind |-> kind, arg |-> arg, options |-> forwardedRequestOptions(kind)]

\* upstream results are recorded once they settle, where they are observed
Unobserved == [recorded |-> FALSE, settled |-> {}]
Record(response) ==
    IF responses.recorded THEN [responses EXCEPT !.settled = @ \cup {response}]
    ELSE responses

\* the result a settled request got: the stage that issued it, its kind and,
\* for a profile request, the position of its candidate
Response(kind, position, result) ==
    [stage |-> stage.kind, kind |-> kind, position |-> position, result |-> result]

pipelineFailure(reasonCode, message, warnings) ==
    [ok |-> FALSE, reasonCode |-> reasonCode, message |-> message,
     warnings |-> warnings]

toResolveFailure(reasonCode, message, diag) ==
    [ok |-> FALSE, state |-> "unresolvable", reasonCode |-> reasonCode,
     message |-> message, diagnostics |-> diag]

toResolveSuccess(result, diag) ==
    [ok |-> TRUE, state |-> "resolved",
     data |-> [result.data EXCEPT !.importWarnings = DedupeSeq(result.warnings)],
     diagnostics |-> diag]

\* createAttempt(source, null, message) and the failed-attempt literals
okAttempt(source, message) ==
    [source |-> source, ok |-> TRUE, reasonCode |-> Null, message |-> message]
failedAttemptWithoutReason(source, reasonCode, message) ==
    [source |-> source, ok |-> FALSE, reasonCode |-> Null, message |-> message]
failedAttempt(source, reasonCode, message) ==
    [source |-> source, ok |-> FALSE, reasonCode |-> Some(reasonCode),
     message |-> message]

\* options.variantId -> userVariantId (Math.trunc of an integer is itself)
toUserVariantId(variantId) ==
    IF variantId # Null /\ Val(variantId) > 0 THEN variantId ELSE Null

\* the fetchProfile requests of variants.map(maybeEnrichWithProfile), in order
RECURSIVE ProfileRequests(_)
ProfileRequests(variants) ==
    IF variants = <<>> THEN <<>>
    ELSE IF needsProfile(variants[1])
         THEN <<Request("profile", Val(variants[1].profileId))>>
              \o ProfileRequests(Tail(variants))
         ELSE ProfileRequests(Tail(variants))
PendingProfiles(variants) == {i \in 1..Len(variants) : needsProfile(variants[i])}

\* the catch block: what it leaves in diagnostics
recoveredDiagnosticsFresh(diag, message) ==
    [pipeline |-> diag.pipeline,
     warnings |-> <<RecoveredWarning>>,
     attempts |-> <<failedAttempt("api", "network_error", message)>>]
recoveredDiagnostics(diag, message) ==
    [pipeline |-> diag.pipeline,
     warnings |-> DedupeSeq(Append(diag.warnings, RecoveredWarning)),
     attempts |-> Append(diag.attempts,
                    failedAttempt(IF diag.pipeline = <<>> THEN "api"
                                  ELSE diag.pipeline[Len(diag.pipeline)],
                                  "network_error", message))]

\* the requests resolveViaApi starts before its first await
apiStageRequestsDesignOnly(designId, normalized) == <<Request("design", designId)>>
apiStageRequestsWithPage(designId, normalized) ==
    <<Request("design", designId), Request("instances", designId),
      Request("page", normalized)>>
apiStageRequests(designId, normalized) ==
    <<Request("design", designId), Request("instances", designId)>>

\* both stages failed: the outcome, with the diagnostics it carries
unresolvedOutcomeFromApi(api, result, pushed) ==
    LET diag == [pushed EXCEPT
                    !.attempts = Append(@, failedAttempt("next_data",
                                        result.reasonCode, result.message)),
                    !.warnings = DedupeSeq(api.warnings \o result.warnings)]
    IN  toResolveFailure(api.reasonCode, api.message, diag)
unresolvedOutcome(api, result, pushed) ==
    LET diag == [pushed EXCEPT
                    !.attempts = Append(@, failedAttempt("next_data",
                                        result.reasonCode, result.message)),
                    !.warnings = DedupeSeq(api.warnings \o result.warnings)]
    IN  toResolveFailure(result.reasonCode, result.message, diag)

Init ==
    /\ pc = "idle"
    /\ call = [sourceUrl |-> <<>>, variantId |-> Null, request |-> Null]
    /\ norm = Null
    /\ diagnostics = [pipeline |-> <<>>, warnings |-> <<>>, attempts |-> <<>>]
    /\ outcome = Null
    /\ requests = <<>>
    /\ stage = NoStage
    /\ apiResolved = Null
    /\ fallbackResolved = Null
    /\ fault = Null
    /\ fin = FinIdle
    /\ fetchJson = FetchIdle
    /\ download = DownloadIdle
    /\ compat = CompatIdle
    /\ responses = Unobserved
    /\ dedupe = DedupeIdle
    /\ duration = DurationIdle
    /\ walk = WalkIdle

\* resolveMakerWorldModel(sourceUrl, { variantId, request }) is called
Call(sourceUrl, variantId, request) ==
    /\ pc = "idle"
    /\ call' = [sourceUrl |-> sourceUrl, variantId |-> variantId,
                request |-> request]
    /\ pc' = "normalize"
    /\ UNCHANGED <<fetchJson, download, compat, responses>>
    /\ UNCHANGED <<dedupe, duration, walk>>
    /\ UNCHANGED <<norm, diagnostics, outcome, requests, stage, apiResolved,
                   fallbackResolved, fault, fin>>

\* normalizeSourceUrl; on success resolveViaApi starts and issues the design
\* and the instances request
Normalize ==
    /\ pc = "normalize"
    /\ LET reject(normalized, diag) ==
               /\ diagnostics' = diag
               /\ outcome' = Some(toResolveFailure(normalized.reasonCode,
                                                   normalized.message, diag))
               /\ pc' = "done"
               /\ UNCHANGED <<norm, requests, stage>>
           proceed(normalized) ==
               IF ~normalized.ok
               THEN reject(normalized,
                           [diagnostics EXCEPT !.attempts =
                               Append(@, failedAttempt("api", normalized.reasonCode,
                                                       normalized.message))])
               ELSE /\ norm' = Some([normalized |-> normalized.normalized,
                                     designId |-> normalized.designId,
                                     requestedVariantId |-> normalized.requestedVariantId,
                                     userVariantId |-> toUserVariantId(call.variantId)])
                    /\ requests' = requests \o apiStageRequests(normalized.designId,
                                                                normalized.normalized)
                    /\ stage' = [kind |-> "api", designResult |-> Null,
                                 instancesResult |-> Null]
                    /\ pc' = "api_wait"
                    /\ UNCHANGED <<diagnostics, outcome>>
       IN  proceed(normalizeSourceUrl(call.sourceUrl))
    /\ UNCHANGED <<fetchJson, download, compat, responses>>
    /\ UNCHANGED <<dedupe, duration, walk>>
    /\ UNCHANGED <<call, apiResolved, fallbackResolved, fault, fin>>

\* fetchDesign settles
DesignResponds(result) ==
    /\ pc = "api_wait"
    /\ stage.designResult = Null
    /\ stage' = [stage EXCEPT !.designResult = Some(result)]
    /\ responses' = Record(Response("design", 0, result))
    /\ UNCHANGED <<dedupe, duration, walk>>
    /\ UNCHANGED <<fetchJson, download, compat>>
    /\ UNCHANGED <<pc, call, norm, diagnostics, outcome, requests, apiResolved,
                   fallbackResolved, fault, fin>>

\* fetchDesignInstances settles
InstancesResponds(result) ==
    /\ pc = "api_wait"
    /\ stage.instancesResult = Null
    /\ stage' = [stage EXCEPT !.instancesResult = Some(result)]
    /\ responses' = Record(Response("instances", 0, result))
    /\ UNCHANGED <<dedupe, duration, walk>>
    /\ UNCHANGED <<fetchJson, download, compat>>
    /\ UNCHANGED <<pc, call, norm, diagnostics, outcome, requests, apiResolved,
                   fallbackResolved, fault, fin>>

\* resolveViaApi from the Promise.all of both requests to the Promise.all of
\* the profile requests
ApiJoin ==
    /\ pc = "api_wait"
    /\ stage.designResult # Null
    /\ stage.instancesResult # Null
    /\ LET designResult == Val(stage.designResult)
           instancesResult == Val(stage.instancesResult)
           rawInstances == instancesResult.data.items
           fallbackInstances == IF designResult.ok THEN designResult.data.items ELSE <<>>
           instanceSource == IF rawInstances # <<>> THEN rawInstances ELSE fallbackInstances
           mapped == dedupeVariants(MapToCandidates(instanceSource))
           titlePayload == IF designResult.ok THEN designResult.data
                           ELSE instancesResult.data
           return(result) ==
               /\ apiResolved' = Some(result)
               /\ stage' = NoStage
               /\ pc' = "api_returned"
               /\ UNCHANGED requests
       IN  IF ~instancesResult.ok
           THEN return(pipelineFailure(instancesResult.error.reasonCode,
                                       instancesResult.error.message, <<>>))
           ELSE IF instanceSource = <<>>
           THEN return(pipelineFailure("malformed_payload",
                    "MakerWorld API did not return usable variant data.", <<>>))
           ELSE IF mapped = <<>>
           THEN return(pipelineFailure("malformed_payload",
                    "MakerWorld API returned variants in an unsupported format.", <<>>))
           ELSE /\ stage' = [kind |-> "api",
                             enriched |-> mapped,
                             pending |-> PendingProfiles(mapped),
                             title |-> titlePayload.title]
                /\ requests' = requests \o ProfileRequests(mapped)
                /\ pc' = "api_enrich"
                /\ UNCHANGED apiResolved
    /\ UNCHANGED <<fetchJson, download, compat, responses>>
    /\ UNCHANGED <<dedupe, duration, walk>>
    /\ UNCHANGED <<call, norm, diagnostics, outcome, fallbackResolved, fault, fin>>

\* Promise.all(variants.map(maybeEnrichWithProfile)): the result of the
\* candidate at position i takes position i, whenever it arrives
settleProfileInArrivalOrder(enriched, pending, i, result) ==
    LET first == CHOOSE k \in pending : \A j \in pending : k <= j
    IN  [enriched EXCEPT ![first] = mergeProfile(enriched[i], result),
                         ![i] = IF i = first THEN mergeProfile(enriched[i], result)
                                ELSE enriched[first]]
settleProfile(enriched, pending, i, result) ==
    [enriched EXCEPT ![i] = mergeProfile(@, result)]

\* one fetchProfile settles: maybeEnrichWithProfile of that candidate ends
ProfileResponds(i, result) ==
    /\ pc \in {"api_enrich", "fb_enrich"}
    /\ i \in stage.pending
    /\ stage' = [stage EXCEPT !.enriched = settleProfile(@, stage.pending, i, result),
                              !.pending = @ \ {i}]
    /\ responses' = Record(Response("profile", i, result))
    /\ UNCHANGED <<dedupe, duration, walk>>
    /\ UNCHANGED <<fetchJson, download, compat>>
    /\ UNCHANGED <<pc, call, norm, diagnostics, outcome, requests, apiResolved,
                   fallbackResolved, fault, fin>>

FinalizeInput(title) ==
    [sourceUrl |-> Val(norm).normalized,
     sourceModelTitle |-> title,
     requestedVariantId |-> Val(norm).requestedVariantId,
     userVariantId |-> Val(norm).userVariantId,
     variants |-> stage.enriched,
     warnings |-> <<>>]

\* resolveViaApi from the end of the enrichment to the f3mf request
ApiFinalize ==
    /\ pc = "api_enrich"
    /\ stage.pending = {}
    /\ LET finalized == finalizeResolvedData(FinalizeInput(stage.title))
       IN  IF ~finalized.ok
           THEN /\ apiResolved' = Some(finalized)
                /\ stage' = NoStage
                /\ pc' = "api_returned"
                /\ UNCHANGED requests
           ELSE LET selectedVariantId == finalized.data.selectedVariantId
                    truthy == selectedVariantId # Null /\ Val(selectedVariantId) # 0
                IN  /\ stage' = [kind |-> "api", finalized |-> finalized,
                                 downloadUrl |-> finalized.data.downloadUrl]
                    /\ requests' = Append(requests,
                          IF truthy THEN Request("instance3mf", Val(selectedVariantId))
                          ELSE Request("designModel", Val(norm).designId))
                    /\ pc' = IF truthy THEN "api_3mf" ELSE "api_model"
                    /\ UNCHANGED apiResolved
    /\ UNCHANGED <<fetchJson, download, compat, responses>>
    /\ UNCHANGED <<dedupe, duration, walk>>
    /\ UNCHANGED <<call, norm, diagnostics, outcome, fallbackResolved, fault, fin>>

\* downloadUrl = chooseDownloadUrl(instanceDownload.data) ?? downloadUrl
refineWithInstanceDownloadKeepsKnown(downloadUrl, result) ==
    IF result.ok THEN Coalesce(downloadUrl, result.data.downloadUrl) ELSE downloadUrl
refineWithInstanceDownload(downloadUrl, result) ==
    IF result.ok THEN Coalesce(result.data.downloadUrl, downloadUrl) ELSE downloadUrl
\* downloadUrl = downloadUrl ?? chooseDownloadUrl(modelDownload.data)
refineWithDesignModel(downloadUrl, result) ==
    IF result.ok THEN Coalesce(downloadUrl, result.data.downloadUrl) ELSE downloadUrl

\* fetchInstance3mf settles; fetchDesignModel is issued
Instance3mfResponds(result) ==
    /\ pc = "api_3mf"
    /\ stage' = [stage EXCEPT !.downloadUrl = refineWithInstanceDownload(@, result)]
    /\ requests' = Append(requests, Request("designModel", Val(norm).designId))
    /\ pc' = "api_model"
    /\ responses' = Record(Response("instance3mf", 0, result))
    /\ UNCHANGED <<dedupe, duration, walk>>
    /\ UNCHANGED <<fetchJson, download, compat>>
    /\ UNCHANGED <<call, norm, diagnostics, outcome, apiResolved,
                   fallbackResolved, fault, fin>>

\* fetchDesignModel settles; resolveViaApi returns its success
DesignModelResponds(result) ==
    /\ pc = "api_model"
    /\ LET downloadUrl == refineWithDesignModel(stage.downloadUrl, result)
       IN  apiResolved' = Some([ok |-> TRUE,
                data |-> [stage.finalized.data EXCEPT !.downloadUrl = downloadUrl],
                warnings |-> stage.finalized.warnings])
    /\ stage' = NoStage
    /\ pc' = "api_returned"
    /\ responses' = Record(Response("designModel", 0, result))
    /\ UNCHANGED <<dedupe, duration, walk>>
    /\ UNCHANGED <<fetchJson, download, compat>>
    /\ UNCHANGED <<call, norm, diagnostics, outcome, requests,
                   fallbackResolved, fault, fin>>

\* resolveMakerWorldModel after resolveViaApi returned; on a failure
\* resolveViaNextData starts and issues the page request
AfterApi ==
    /\ pc = "api_returned"
    /\ LET result == Val(apiResolved)
           pushed == [diagnostics EXCEPT !.pipeline = Append(@, "api")]
       IN  IF result.ok
           THEN LET diag == [pushed EXCEPT
                        !.attempts = Append(@, okAttempt("api", "Resolved via MakerWorld API.")),
                        !.warnings = DedupeSeq(result.warnings)]
                IN  /\ diagnostics' = diag
                    /\ outcome' = Some(toResolveSuccess(result, diag))
                    /\ pc' = "done"
                    /\ UNCHANGED <<requests, stage>>
           ELSE /\ diagnostics' = [pushed EXCEPT !.attempts =
                        Append(@, failedAttempt("api", result.reasonCode, result.message))]
                /\ requests' = Append(requests, Request("page", Val(norm).normalized))
                /\ stage' = [kind |-> "next_data"]
                /\ pc' = "fb_wait"
                /\ UNCHANGED outcome
    /\ UNCHANGED <<fetchJson, download, compat, responses>>
    /\ UNCHANGED <<dedupe, duration, walk>>
    /\ UNCHANGED <<call, norm, apiResolved, fallbackResolved, fault, fin>>

\* fetchTextWithLimit settles; resolveViaNextData up to the Promise.all of
\* the profile requests
PageResponds(page) ==
    /\ pc = "fb_wait"
    /\ LET return(result) ==
               /\ fallbackResolved' = Some(result)
               /\ stage' = NoStage
               /\ pc' = "fb_returned"
               /\ UNCHANGED requests
           instances == Val(page.nextData).items
           variants == dedupeVariants(MapToCandidates(instances))
       IN  IF page.kind = "abort"
           THEN return(pipelineFailure("timeout", "MakerWorld page request timed out.", <<>>))
           ELSE IF page.kind = "status"
           THEN return(pipelineFailure("network_error",
                    "MakerWorld page request failed (404)", <<>>))
           ELSE IF page.nextData = Null
           THEN return(pipelineFailure("malformed_payload",
                    "MakerWorld page did not expose __NEXT_DATA__ payload.", <<>>))
           ELSE IF instances = <<>>
           THEN return(pipelineFailure("malformed_payload",
                    "MakerWorld fallback payload did not include variants.", <<>>))
           ELSE IF variants = <<>>
           THEN return(pipelineFailure("malformed_payload",
                    "MakerWorld fallback payload variant format was unsupported.", <<>>))
           ELSE /\ stage' = [kind |-> "next_data",
                             enriched |-> variants,
                             pending |-> PendingProfiles(variants),
                             title |-> Val(page.nextData).title]
                /\ requests' = requests \o ProfileRequests(variants)
                /\ pc' = "fb_enrich"
                /\ UNCHANGED fallbackResolved
    /\ responses' = Record(Response("page", 0, page))
    /\ UNCHANGED <<dedupe, duration, walk>>
    /\ UNCHANGED <<fetchJson, download, compat>>
    /\ UNCHANGED <<call, norm, diagnostics, outcome, apiResolved, fault, fin>>

\* resolveViaNextData from the end of the enrichment to its return
FallbackFinalize ==
    /\ pc = "fb_enrich"
    /\ stage.pending = {}
    /\ fallbackResolved' = Some(finalizeResolvedData(FinalizeInput(stage.title)))
    /\ stage' = NoStage
    /\ pc' = "fb_returned"
    /\ UNCHANGED <<fetchJson, download, compat, responses>>
    /\ UNCHANGED <<dedupe, duration, walk>>
    /\ UNCHANGED <<call, norm, diagnostics, outcome, requests, apiResolved, fault, fin>>

\* resolveMakerWorldModel after resolveViaNextData returned
AfterFallback ==
    /\ pc = "fb_returned"
    /\ LET api == Val(apiResolved)
           result == Val(fallbackResolved)
           pushed == [diagnostics EXCEPT !.pipeline = Append(@, "next_data")]
       IN  IF result.ok
           THEN LET diag == [pushed EXCEPT
                        !.attempts = Append(@, okAttempt("next_data",
                                            "Resolved via __NEXT_DATA__ fallback.")),
                        !.warnings = DedupeSeq(result.warnings)]
                IN  /\ diagnostics' = diag
                    /\ outcome' = Some(toResolveSuccess(result, diag))
           ELSE LET failure == unresolvedOutcome(api, result, pushed)
                IN  /\ diagnostics' = failure.diagnostics
                    /\ outcome' = Some(failure)
    /\ pc' = "done"
    /\ UNCHANGED <<fetchJson, download, compat, responses>>
    /\ UNCHANGED <<dedupe, duration, walk>>
    /\ UNCHANGED <<call, norm, requests, stage, apiResolved, fallbackResolved,
                   fault, fin>>

\* an error is thrown inside the try block and the catch block runs
TryBlock ==
    {"normalize", "api_wait", "api_enrich", "api_3mf", "api_model",
     "fb_wait", "fb_enrich"}
InternalError ==
    /\ pc \in TryBlock
    /\ fault' = Some([at |-> pc, diagnostics |-> diagnostics])
    /\ LET diag == recoveredDiagnostics(diagnostics, InternalErrorMessage)
       IN  /\ diagnostics' = diag
           /\ outcome' = Some(toResolveFailure("network_error",
                                               GenericFailureMessage, diag))
    /\ stage' = NoStage
    /\ pc' = "done"
    /\ UNCHANGED <<fetchJson, download, compat, responses>>
    /\ UNCHANGED <<dedupe, duration, walk>>
    /\ UNCHANGED <<call, norm, requests, apiResolved, fallbackResolved, fin>>

Next ==
    \/ \E sourceUrl \in SourceUrls, variantId \in VariantIdOptions,
          request \in RequestOptions :
          Call(sourceUrl, variantId, request)
    \/ Normalize
    \/ \E result \in {apiOk(p) : p \in DesignPayloads}
                     \cup {apiErr("upstream_blocked", "MakerWorld blocked the request (403).")} :
          DesignResponds(result)
    \/ \E result \in {apiOk(p) : p \in Payloads} \cup ApiErrors :
          InstancesResponds(result)
    \/ ApiJoin
    \/ \E i \in 1..(MaxInstances + 1), result \in ProfileResults :
          ProfileResponds(i, result)
    \/ ApiFinalize
    \/ \E result \in DownloadResults("https://makerworld.cdn/files/selected.3mf") :
          Instance3mfResponds(result)
    \/ \E result \in DownloadResults("https://makerworld.cdn/files/model.3mf") :
          DesignModelResponds(result)
    \/ AfterApi
    \/ \E page \in PageResults : PageResponds(page)
    \/ FallbackFinalize
    \/ AfterFallback
    \/ InternalError

Spec == Init /\ [][Next]_vars

\* the same call with its upstream results observed: one source URL without
\* and one with a #profileId, and the caller's variantId options
ObservedSourceUrls ==
    { HttpsScheme \o MakerworldHost \o ModelsPath,
      HttpsScheme \o MakerworldHost \o ModelsPath \o ProfileIdHash \o <<"2">> }
InitObserved ==
    /\ pc = "idle"
    /\ call = [sourceUrl |-> <<>>, variantId |-> Null, request |-> Null]
    /\ norm = Null
    /\ diagnostics = [pipeline |-> <<>>, warnings |-> <<>>, attempts |-> <<>>]
    /\ outcome = Null
    /\ requests = <<>>
    /\ stage = NoStage
    /\ apiResolved = Null
    /\ fallbackResolved = Null
    /\ fault = Null
    /\ fin = FinIdle
    /\ fetchJson = FetchIdle
    /\ download = DownloadIdle
    /\ compat = CompatIdle
    /\ responses = [recorded |-> TRUE, settled |-> {}]
    /\ dedupe = DedupeIdle
    /\ duration = DurationIdle
    /\ walk = WalkIdle
NextObserved ==
    \/ \E sourceUrl \in ObservedSourceUrls, variantId \in VariantIdOptions :
          Call(sourceUrl, variantId, Null)
    \/ Normalize
    \/ \E result \in {apiOk(p) : p \in DesignPayloads}
                     \cup {apiErr("upstream_blocked", "MakerWorld blocked the request (403).")} :
          DesignResponds(result)
    \/ \E result \in {apiOk(p) : p \in Payloads} \cup ApiErrors :
          InstancesResponds(result)
    \/ ApiJoin
    \/ \E i \in 1..(MaxInstances + 1), result \in ProfileResults :
          ProfileResponds(i, result)
    \/ ApiFinalize
    \/ \E result \in DownloadResults("https://makerworld.cdn/files/selected.3mf") :
          Instance3mfResponds(result)
    \/ \E result \in DownloadResults("https://makerworld.cdn/files/model.3mf") :
          DesignModelResponds(result)
    \/ AfterApi
    \/ \E page \in PageResults : PageResponds(page)
    \/ FallbackFinalize
    \/ AfterFallback
    \/ InternalError
SpecObserved == InitObserved /\ [][NextObserved]_vars

(***************************************************************************)
(* finalizeResolvedData applied to every bounded input                     *)
(***************************************************************************)
InitFinalize ==
    /\ pc = "idle"
    /\ call = [sourceUrl |-> <<>>, variantId |-> Null, request |-> Null]
    /\ norm = Null
    /\ diagnostics = [pipeline |-> <<>>, warnings |-> <<>>, attempts |-> <<>>]
    /\ outcome = Null
    /\ requests = <<>>
    /\ stage = NoStage
    /\ apiResolved = Null
    /\ fallbackResolved = Null
    /\ fault = Null
    /\ \E input \in FinInputs(MaxVariants) : fin = [pc |-> "ready", input |-> input, result |-> Null]
    /\ fetchJson = FetchIdle
    /\ download = DownloadIdle
    /\ compat = CompatIdle
    /\ responses = Unobserved
    /\ dedupe = DedupeIdle
    /\ duration = DurationIdle
    /\ walk = WalkIdle

NextFinalize == FinalizeStep

SpecFinalize == InitFinalize /\ [][NextFinalize]_vars

(***************************************************************************)
(* Properties of the orchestrator (checked under Spec)                     *)
(***************************************************************************)
Range(s) == {s[i] : i \in 1..Len(s)}
NoDuplicates(s) == \A i, j \in 1..Len(s) : i # j => s[i] # s[j]
IsPrefixOf(a, b) == Len(a) <= Len(b) /\ SubSeq(b, 1, Len(a)) = a
PageRequested == \E i \in 1..Len(requests) : requests[i].kind = "page"
Returned == pc = "done"

(* C1: resolveMakerWorldModel always returns an outcome and never throws.  *)
(* The call has ended exactly when an outcome has been returned; and when  *)
(* a step inside the resolution threw, the returned outcome is ok=false    *)
(* with reasonCode network_error and the generic message, and the pipeline *)
(* entries and the attempts recorded before the fault are still present,   *)
(* in order, in the returned diagnostics.                                  *)
C1_NeverThrows ==
    /\ Returned <=> outcome # Null
    /\ fault # Null =>
        /\ Returned
        /\ outcome # Null
        /\ ~Val(outcome).ok
        /\ Val(outcome).reasonCode = "network_error"
        /\ Val(outcome).message = GenericFailureMessage
        /\ IsPrefixOf(Val(fault).diagnostics.pipeline,
                      Val(outcome).diagnostics.pipeline)
        /\ IsPrefixOf(Val(fault).diagnostics.attempts,
                      Val(outcome).diagnostics.attempts)

\* the fallback stage threw after the API stage's failure had been recorded
C1_FaultAfterRecordedAttempt ==
    /\ Returned
    /\ fault # Null
    /\ Val(fault).at = "fb_enrich"
    /\ Val(fault).diagnostics.pipeline = <<"api">>
    /\ Len(Val(fault).diagnostics.attempts) = 1
    /\ Len(Val(outcome).diagnostics.attempts) = 2

(* C2: for a valid source URL the page fetch of the fallback stage is      *)
(* issued if and only if the API stage has returned a failure: no page     *)
(* request exists before the API stage has returned, none after it         *)
(* returned a success, and one is issued as soon as the orchestrator has   *)
(* taken note of a failure.  A call that ended without an internal fault   *)
(* has pipeline ["api"] when the API stage succeeded and                   *)
(* ["api","next_data"] when it failed.                                     *)
C2_FallbackIffApiFailed ==
    /\ PageRequested => apiResolved # Null /\ ~Val(apiResolved).ok
    /\ (apiResolved # Null /\ ~Val(apiResolved).ok /\ pc # "api_returned")
          => PageRequested
    /\ (Returned /\ norm # Null /\ fault = Null) =>
          /\ apiResolved # Null
          /\ Val(outcome).diagnostics.pipeline =
                IF Val(apiResolved).ok THEN <<"api">> ELSE <<"api", "next_data">>
          /\ Val(apiResolved).ok => fallbackResolved = Null
          /\ ~Val(apiResolved).ok => fallbackResolved # Null

\* the API stage failed and the fallback stage resolved the model
C2_ResolvedByFallback ==
    /\ Returned
    /\ fault = Null
    /\ PageRequested
    /\ Val(outcome).ok
    /\ Val(outcome).diagnostics.pipeline = <<"api", "next_data">>

(* C3: when both stages fail, the reasonCode and the message of the        *)
(* returned failure are those of the fallback stage, and                   *)
(* diagnostics.warnings holds, without duplicates, exactly the warnings of *)
(* the two stages.                                                         *)
C3_BothFailedReportsFallback ==
    (/\ Returned
     /\ apiResolved # Null
     /\ fallbackResolved # Null
     /\ ~Val(apiResolved).ok
     /\ ~Val(fallbackResolved).ok) =>
        /\ ~Val(outcome).ok
        /\ Val(outcome).reasonCode = Val(fallbackResolved).reasonCode
        /\ Val(outcome).message = Val(fallbackResolved).message
        /\ NoDuplicates(Val(outcome).diagnostics.warnings)
        /\ Range(Val(outcome).diagnostics.warnings) =
              Range(Val(apiResolved).warnings) \cup Range(Val(fallbackResolved).warnings)

\* both stages failed, each for a reason of its own
C3_BothFailedDifferently ==
    /\ Returned
    /\ apiResolved # Null
    /\ fallbackResolved # Null
    /\ ~Val(apiResolved).ok
    /\ ~Val(fallbackResolved).ok
    /\ Val(apiResolved).reasonCode = "upstream_blocked"
    /\ Val(fallbackResolved).reasonCode = "malformed_payload"

\* The validity of a source URL, as the contract states it.
UrlHostIsMakerworld(host) ==
    \/ host = MakerworldHost
    \/ \E k \in 2..Len(host) :
          /\ host[k] = "."
          /\ SubSeq(host, k + 1, Len(host)) = MakerworldHost
UrlPathHasDesignId(pathname) ==
    LET p == toLowerCase(pathname)
    IN  \E i \in 1..Len(p) :
          \E seg \in {SlashModel \o <<"/">>, SlashModel \o <<"s", "/">>} :
            /\ OccursAt(p, seg, i)
            /\ DigitRun(p, i + Len(seg)) # <<>>
            /\ NumberOfDigits(DigitRun(p, i + Len(seg))) > 0
UrlIsValid(input) ==
    LET parsed == ParseUrl(input)
    IN  /\ parsed.ok
        /\ parsed.protocol = <<"h", "t", "t", "p", "s", ":">>
        /\ UrlHostIsMakerworld(parsed.hostname)
        /\ UrlPathHasDesignId(parsed.pathname)
\* the number of a profileId-<digits> fragment, Null without one
UrlFragmentId(input) ==
    LET k == IndexOfChar(input, "#")
        fragment == toLowerCase(SubSeq(input, k + 1, Len(input)))
        hits == {i \in 1..Len(fragment) :
                    /\ k > 0
                    /\ OccursAt(fragment, HashProfileIdToken, i)
                    /\ IsDigit(fragment[i + Len(HashProfileIdToken)])}
    IN  IF hits = {} THEN Null
        ELSE Some(NumberOfDigits(DigitRun(fragment,
                (CHOOSE i \in hits : \A j \in hits : i <= j)
                    + Len(HashProfileIdToken))))
Normalized == pc \notin {"idle", "normalize"}

(* C4: a call with an input that fails URL validation (not a URL, a scheme *)
(* other than https, a host that is neither makerworld.com nor a subdomain *)
(* of it, a path without /model/ or /models/ followed by a positive design *)
(* id) returns ok=false with reasonCode invalid_url and issues no request; *)
(* for a valid input the URL every later step uses is the input without    *)
(* its fragment, and the requested variant id is the number of the         *)
(* profileId-<digits> fragment when that number is positive, else null.    *)
(* (Calls in which a step threw are the subject of C1.)                    *)
C4_UrlValidation ==
    /\ (Normalized /\ ~UrlIsValid(call.sourceUrl) /\ fault = Null) =>
          /\ Returned
          /\ norm = Null
          /\ ~Val(outcome).ok
          /\ Val(outcome).reasonCode = "invalid_url"
          /\ requests = <<>>
    /\ norm # Null =>
          /\ UrlIsValid(call.sourceUrl)
          /\ ~includes(Val(norm).normalized, <<"#">>)
          /\ Val(norm).normalized \o ParseUrl(call.sourceUrl).hash =
                UrlToString(ParseUrl(call.sourceUrl))
          /\ Val(norm).requestedVariantId =
                IF /\ UrlFragmentId(call.sourceUrl) # Null
                   /\ Val(UrlFragmentId(call.sourceUrl)) > 0
                THEN UrlFragmentId(call.sourceUrl) ELSE Null
          /\ \A i \in 1..Len(requests) :
                requests[i].kind = "page" => requests[i].arg = Val(norm).normalized
    /\ (Normalized /\ UrlIsValid(call.sourceUrl) /\ fault = Null) => norm # Null

\* an https URL of a host that only ends in makerworld.com was rejected
C4_LookalikeHostRejected ==
    /\ Returned
    /\ fault = Null
    /\ ParseUrl(call.sourceUrl).ok
    /\ ParseUrl(call.sourceUrl).protocol = <<"h", "t", "t", "p", "s", ":">>
    /\ endsWith(ParseUrl(call.sourceUrl).hostname, MakerworldHost)
    /\ ~UrlIsValid(call.sourceUrl)
    /\ Val(outcome).reasonCode = "invalid_url"
    /\ requests = <<>>

(***************************************************************************)
(* Properties of the selection engine (checked under SpecFinalize)         *)
(***************************************************************************)
Finalized == fin.pc = "done"
Candidates == fin.input.variants
HashId == fin.input.requestedVariantId
CallerId == fin.input.userVariantId
\* hours and grams both present and > 0
MetricComplete(c) ==
    /\ c.estimatedHours # Null /\ c.estimatedGrams # Null
    /\ Val(c.estimatedHours) > 0 /\ Val(c.estimatedGrams) > 0
PrinterCompatible(c) == isCompatiblePrinterName(c.printer, PRINTER_MODEL)
HasId(c, id) == id # Null /\ (c.variantId = id \/ c.profileId = id)
Succeeded == Finalized /\ fin.result.ok
\* the candidates of a list differ in their payload
IsSelected(c) == Succeeded /\ fin.result.data.sourceProfilePayload = c.payload
SomeCandidate(P(_)) == \E i \in 1..Len(Candidates) : P(Candidates[i])
StrictPoolEmpty ==
    ~SomeCandidate(LAMBDA c : PrinterCompatible(c) /\ MetricComplete(c))
\* the id that was asked for explicitly: the hash id, else the caller's
ExplicitId == IF HashId # Null THEN HashId ELSE CallerId
ExplicitIdMatches ==
    SomeCandidate(LAMBDA c : MetricComplete(c) /\ HasId(c, ExplicitId))

HashIdInPool(c) ==
    /\ MetricComplete(c)
    /\ HasId(c, HashId)
    /\ PrinterCompatible(c) \/ StrictPoolEmpty

PoolHasId(id) ==
    \E i \in 1..Len(fin.result.data.availableVariants) :
        HasId(fin.result.data.availableVariants[i], id)
SelectedHasId(id) ==
    id # Null /\ (fin.result.data.selectedVariantId = id
                  \/ fin.result.data.selectedProfileId = id)

(* C6: selection over the pool follows a three-level precedence: the hash  *)
(* id if it matches a pool member (requested_variant_id); else the         *)
(* caller's variantId if it matches a pool member (user_selected_variant,  *)
(* with a warning when a hash id was given and matched nothing); else the  *)
(* first pool entry (shortest_time_fallback).                              *)
C6_ThreeLevelPrecedence ==
    Succeeded =>
        LET data == fin.result.data
        IN  IF PoolHasId(HashId)
            THEN /\ data.selectionStrategy = "requested_variant_id"
                 /\ SelectedHasId(HashId)
            ELSE IF PoolHasId(CallerId)
            THEN /\ data.selectionStrategy = "user_selected_variant"
                 /\ SelectedHasId(CallerId)
                 /\ HashId # Null =>
                        WarnRequestedUnavailable \in Range(data.importWarnings)
            ELSE /\ data.selectionStrategy = "shortest_time_fallback"
                 /\ data.selectedVariantId =
                        Coalesce(data.availableVariants[1].variantId,
                                 data.availableVariants[1].profileId)

(* C7: without a hash id and without a caller variantId, and with at least *)
(* one printer-compatible candidate with complete metrics, the stage       *)
(* succeeds with selectionStrategy shortest_time_fallback, and the         *)
(* selected candidate is printer-compatible, has the least estimatedHours  *)
(* of all printer-compatible metric-complete candidates, and the least     *)
(* estimatedGrams of those with that many hours.                           *)
C7_ShortestTimeFallback ==
    (Finalized /\ HashId = Null /\ CallerId = Null /\ ~StrictPoolEmpty) =>
        /\ Succeeded
        /\ fin.result.data.selectionStrategy = "shortest_time_fallback"
        /\ \E i \in 1..Len(Candidates) :
              LET sel == Candidates[i]
              IN  /\ IsSelected(sel)
                  /\ PrinterCompatible(sel) /\ MetricComplete(sel)
                  /\ \A j \in 1..Len(Candidates) :
                        LET c == Candidates[j]
                        IN  (PrinterCompatible(c) /\ MetricComplete(c)) =>
                              \/ Val(sel.estimatedHours) < Val(c.estimatedHours)
                              \/ /\ sel.estimatedHours = c.estimatedHours
                                 /\ Val(sel.estimatedGrams) <= Val(c.estimatedGrams)

\* two compatible candidates of equal hours: the lighter one, given second,
\* is selected
C7_TieBrokenByGrams ==
    /\ Succeeded
    /\ HashId = Null /\ CallerId = Null
    /\ Len(Candidates) = 2
    /\ PrinterCompatible(Candidates[1]) /\ MetricComplete(Candidates[1])
    /\ PrinterCompatible(Candidates[2]) /\ MetricComplete(Candidates[2])
    /\ Candidates[1].estimatedHours = Candidates[2].estimatedHours
    /\ Val(Candidates[2].estimatedGrams) < Val(Candidates[1].estimatedGrams)
    /\ IsSelected(Candidates[2])

\* the pool a success was built from, as availableVariants lists it
PoolIs(P(_)) ==
    LET members == {i \in 1..Len(Candidates) : P(Candidates[i])}
        listed == fin.result.data.availableVariants
    IN  /\ Len(listed) = Cardinality(members)
        /\ Range(listed) = {toAvailableVariant(Candidates[i]) : i \in members}

(* C8: when no candidate is both printer-compatible and metric-complete    *)
(* and the explicitly requested id (if any) matches no metric-complete     *)
(* candidate, a success is built from the pool of all metric-complete      *)
(* candidates, whatever their printer, and has profileResolutionMode       *)
(* relaxed_printer, confidence medium and the relaxed-mode warning in      *)
(* importWarnings; every other success has mode strict and confidence      *)
(* high.                                                                   *)
C8_RelaxedPool ==
    Succeeded =>
        LET data == fin.result.data
        IN  IF StrictPoolEmpty /\ ~ExplicitIdMatches
            THEN /\ PoolIs(MetricComplete)
                 /\ data.profileResolutionMode = "relaxed_printer"
                 /\ data.profileResolutionConfidence = "medium"
                 /\ WarnRelaxed \in Range(data.importWarnings)
            ELSE /\ data.profileResolutionMode = "strict"
                 /\ data.profileResolutionConfidence = "high"

\* a relaxed success over two candidates of an unrelated printer, although
\* an id was asked for
C8_RelaxedWithUnmatchedId ==
    /\ Succeeded
    /\ StrictPoolEmpty
    /\ ExplicitId # Null
    /\ ~ExplicitIdMatches
    /\ Len(fin.result.data.availableVariants) = 2
    /\ fin.result.data.profileResolutionMode = "relaxed_printer"

(* C9: when no candidate is both printer-compatible and metric-complete    *)
(* but the explicitly requested id (the hash id, or the caller's variantId *)
(* when no hash id is given) matches a metric-complete candidate, the      *)
(* stage succeeds from a pool of that one candidate, which is selected;    *)
(* the mode stays strict with confidence high, and importWarnings holds    *)
(* the 'inferred from explicitly selected' warning and not the 'could not  *)
(* be verified strictly' warning.                                          *)
C9_ExplicitIdInfersCompatibility ==
    (Finalized /\ StrictPoolEmpty /\ ExplicitIdMatches) =>
        LET data == fin.result.data
        IN  /\ Succeeded
            /\ Len(data.availableVariants) = 1
            /\ HasId(data.availableVariants[1], ExplicitId)
            /\ SomeCandidate(LAMBDA c :
                  /\ MetricComplete(c) /\ HasId(c, ExplicitId) /\ IsSelected(c)
                  /\ data.availableVariants[1] = toAvailableVariant(c))
            /\ data.profileResolutionMode = "strict"
            /\ data.profileResolutionConfidence = "high"
            /\ WarnInferred \in Range(data.importWarnings)
            /\ WarnRelaxed \notin Range(data.importWarnings)

\* the caller's variantId, without a hash id, picks one of two metric-complete
\* candidates of an unrelated printer
C9_CallerIdInfers ==
    /\ Succeeded
    /\ StrictPoolEmpty
    /\ HashId = Null
    /\ CallerId # Null
    /\ ExplicitIdMatches
    /\ Cardinality({i \in 1..Len(Candidates) : MetricComplete(Candidates[i])}) = 2
    /\ fin.result.data.selectionStrategy = "user_selected_variant"

(* C10: a stage none of whose candidates has complete metrics fails with   *)
(* reasonCode missing_profile_metrics; and a stage never succeeds with a   *)
(* selected variant whose estimatedHours or estimatedGrams is missing or   *)
(* not > 0.                                                                *)
C10_MissingProfileMetrics ==
    /\ (Finalized /\ ~SomeCandidate(MetricComplete)) =>
          /\ ~fin.result.ok
          /\ fin.result.reasonCode = "missing_profile_metrics"
    /\ Succeeded =>
          /\ fin.result.data.sourceProfileEstimatedHours > 0
          /\ fin.result.data.sourceProfileEstimatedGrams > 0
          /\ SomeCandidate(LAMBDA c : IsSelected(c) /\ MetricComplete(c))
          /\ \A i \in 1..Len(fin.result.data.availableVariants) :
                /\ fin.result.data.availableVariants[i].estimatedHours > 0
                /\ fin.result.data.availableVariants[i].estimatedGrams > 0

\* a printer-compatible candidate that lacks its grams, alone: the stage
\* fails
C10_OnlyIncompleteCandidates ==
    /\ Finalized
    /\ Len(Candidates) = 1
    /\ PrinterCompatible(Candidates[1])
    /\ Candidates[1].estimatedHours # Null
    /\ Candidates[1].estimatedGrams = Null
    /\ ~fin.result.ok
    /\ fin.result.reasonCode = "missing_profile_metrics"

(***************************************************************************)
(* Claims on the requests of one resolve call                              *)
(***************************************************************************)
DesignServiceKinds == {"design", "instances", "profile", "instance3mf", "designModel"}
CallerOption(field) == OptionOf(call.request, field)
CallerHeaderNames == IF CallerOption("headers") = Null THEN {} ELSE DOMAIN Val(CallerOption("headers"))
KindRequested(kind) == \E i \in 1..Len(requests) : requests[i].kind = kind

MaxRetries == 2

IsSpace(c) == c \in {" ", "\t", "\n", "\r"}
trim(s) ==
    LET kept == {i \in 1..Len(s) : ~IsSpace(s[i])}
    IN  IF kept = {} THEN <<>>
        ELSE SubSeq(s, CHOOSE i \in kept : \A j \in kept : i <= j,
                       CHOOSE i \in kept : \A j \in kept : i >= j)

\* response.ok
responseOk(status) == status >= 200 /\ status <= 299

mapHttpStatusOnly403Blocked(status) ==
    IF status = 404
    THEN [reasonCode |-> "not_found", message |-> "MakerWorld resource was not found."]
    ELSE IF status = 403
    THEN [reasonCode |-> "upstream_blocked",
          message |-> "MakerWorld blocked the request (" \o ToString(status) \o ")."]
    ELSE IF status = 408 \/ status = 504
    THEN [reasonCode |-> "timeout", message |-> "MakerWorld request timed out."]
    ELSE [reasonCode |-> "network_error",
          message |-> "MakerWorld API request failed (" \o ToString(status) \o ")."]
mapHttpStatus(status) ==
    IF status = 404
    THEN [reasonCode |-> "not_found", message |-> "MakerWorld resource was not found."]
    ELSE IF status = 401 \/ status = 403 \/ status = 429
    THEN [reasonCode |-> "upstream_blocked",
          message |-> "MakerWorld blocked the request (" \o ToString(status) \o ")."]
    ELSE IF status = 408 \/ status = 504
    THEN [reasonCode |-> "timeout", message |-> "MakerWorld request timed out."]
    ELSE [reasonCode |-> "network_error",
          message |-> "MakerWorld API request failed (" \o ToString(status) \o ")."]

\* the statuses a response arrives with
Statuses == {200, 204, 304, 401, 403, 404, 408, 429, 500, 504}

\* response bodies: the text, and what JSON.parse makes of it (Null when it
\* throws)
EmptyBody == [raw |-> <<>>, json |-> Null]
BlankBody == [raw |-> <<" ", "\n">>, json |-> Null]
InvalidJsonBody == [raw |-> <<"n", "o", "t", "-", "j", "s", "o", "n">>, json |-> Null]
JsonBody == [raw |-> <<" ", "{", "}", "\n">>, json |-> Some("{}")]
Bodies == {EmptyBody, BlankBody, InvalidJsonBody, JsonBody}

\* the errors a rejected fetch() or response.text() throws
AbortError == [name |-> "AbortError", message |-> "This operation was aborted"]
TypeError == [name |-> "TypeError", message |-> "fetch failed"]
NetworkErrors == {AbortError, TypeError}

\* the options of a fetchApiJson call: none, or a retry count that is left
\* out, not finite, negative, fractional or a whole number up to MaxRetries
RetriesInputs ==
    {Null, Some(NotFinite), Some(JsNumber(-10)), Some(JsNumber(-5)), Some(JsNumber(15))}
        \cup {Some(Whole(n)) : n \in 0..MaxRetries}
FetchOptions ==
    {Null} \cup {Some([timeoutMs |-> t, retries |-> r, headers |-> Null]) :
                    t \in {Null, Some(Whole(3000))}, r \in RetriesInputs}

\* an attempt: the status of the response it received (Null while there is
\* none), how it ended ("running" until then; "returned"; "threw") and the
\* error it threw
Attempt(status, end, error) == [status |-> status, end |-> end, error |-> error]
SettleAttempt(attempts, status, end, error) ==
    [attempts EXCEPT ![Len(attempts)] = Attempt(status, end, error)]

\* the catch block after the error of an attempt: the return when no
\* attempt is left, else the next round of the loop
returnNetworkError(state, status, error) ==
    LET aborted == error.name = "AbortError"
    IN  [state EXCEPT
            !.pc = "done",
            !.attempts = SettleAttempt(@, status, "threw", Some(error)),
            !.result = Some(apiErr(IF aborted THEN "timeout" ELSE "network_error",
                                   IF aborted THEN "MakerWorld API request timed out."
                                   ELSE "MakerWorld API request failed: " \o error.message))]
catchNetworkErrorNoRetryOnAbort(state, status, error) ==
    LET aborted == error.name = "AbortError"
    IN  IF state.attempt >= state.retries \/ aborted
        THEN returnNetworkError(state, status, error)
        ELSE [state EXCEPT !.pc = "loop", !.attempt = @ + 1,
                           !.attempts = SettleAttempt(@, status, "threw", Some(error))]
catchNetworkError(state, status, error) ==
    IF state.attempt >= state.retries
    THEN returnNetworkError(state, status, error)
    ELSE [state EXCEPT !.pc = "loop", !.attempt = @ + 1,
                       !.attempts = SettleAttempt(@, status, "threw", Some(error))]

\* fetchApiJson(pathname, options) is called: timeoutMs, retries and headers
\* are computed, the loop counter is 0
FetchCall(options) ==
    [pc |-> "loop", options |-> options, timeoutMs |-> timeoutMsOf(options),
     retries |-> retriesOf(options), headers |-> headersOf(options),
     attempt |-> 0, attempts |-> <<>>, body |-> Null, result |-> Null]

\* `attempt <= retries`: the next fetch is started; otherwise the return
\* after the loop
LoopHead ==
    /\ fetchJson.pc = "loop"
    /\ fetchJson' =
          IF fetchJson.attempt <= fetchJson.retries
          THEN [fetchJson EXCEPT !.pc = "fetching",
                                 !.attempts = Append(@, Attempt(Null, "running", Null))]
          ELSE [fetchJson EXCEPT !.pc = "done",
                   !.result = Some(apiErr("network_error", "MakerWorld API request failed."))]
    /\ UNCHANGED <<pc, call, norm, diagnostics, outcome, requests, stage,
                   apiResolved, fallbackResolved, fault, fin, download, compat, responses>>
    /\ UNCHANGED <<dedupe, duration, walk>>

\* await fetch(...) rejects: a network failure, or the abort of the timer
FetchRejects(error) ==
    /\ fetchJson.pc = "fetching"
    /\ fetchJson' = catchNetworkError(fetchJson, Null, error)
    /\ UNCHANGED <<pc, call, norm, diagnostics, outcome, requests, stage,
                   apiResolved, fallbackResolved, fault, fin, download, compat, responses>>
    /\ UNCHANGED <<dedupe, duration, walk>>

\* await fetch(...) resolves with a response: a status that is not ok is
\* mapped and returned, otherwise the body is read
FetchResponds(status) ==
    /\ fetchJson.pc = "fetching"
    /\ fetchJson' =
          IF ~responseOk(status)
          THEN [fetchJson EXCEPT
                   !.pc = "done",
                   !.attempts = SettleAttempt(@, Some(status), "returned", Null),
                   !.result = Some(apiErr(mapHttpStatus(status).reasonCode,
                                          mapHttpStatus(status).message))]
          ELSE [fetchJson EXCEPT !.pc = "reading",
                                 !.attempts = SettleAttempt(@, Some(status), "running", Null)]
    /\ UNCHANGED <<pc, call, norm, diagnostics, outcome, requests, stage,
                   apiResolved, fallbackResolved, fault, fin, download, compat, responses>>
    /\ UNCHANGED <<dedupe, duration, walk>>

\* await response.text() rejects, inside the same try block
TextRejects(error) ==
    /\ fetchJson.pc = "reading"
    /\ fetchJson' = catchNetworkError(fetchJson,
                        fetchJson.attempts[Len(fetchJson.attempts)].status, error)
    /\ UNCHANGED <<pc, call, norm, diagnostics, outcome, requests, stage,
                   apiResolved, fallbackResolved, fault, fin, download, compat, responses>>
    /\ UNCHANGED <<dedupe, duration, walk>>

\* await response.text() resolves: empty payload, invalid JSON or the data
TextResolves(body) ==
    /\ fetchJson.pc = "reading"
    /\ fetchJson' =
          [fetchJson EXCEPT
              !.pc = "done",
              !.attempts = SettleAttempt(@, @[Len(@)].status, "returned", Null),
              !.body = Some(body),
              !.result =
                  IF trim(body.raw) = <<>>
                  THEN Some(apiErr("malformed_payload",
                                   "MakerWorld API returned an empty payload."))
                  ELSE IF body.json = Null
                  THEN Some(apiErr("malformed_payload",
                                   "MakerWorld API returned invalid JSON."))
                  ELSE Some(apiOk(Val(body.json)))]
    /\ UNCHANGED <<pc, call, norm, diagnostics, outcome, requests, stage,
                   apiResolved, fallbackResolved, fault, fin, download, compat, responses>>
    /\ UNCHANGED <<dedupe, duration, walk>>

InitFetch ==
    /\ pc = "idle"
    /\ call = [sourceUrl |-> <<>>, variantId |-> Null, request |-> Null]
    /\ norm = Null
    /\ diagnostics = [pipeline |-> <<>>, warnings |-> <<>>, attempts |-> <<>>]
    /\ outcome = Null
    /\ requests = <<>>
    /\ stage = NoStage
    /\ apiResolved = Null
    /\ fallbackResolved = Null
    /\ fault = Null
    /\ fin = FinIdle
    /\ \E options \in FetchOptions : fetchJson = FetchCall(options)
    /\ download = DownloadIdle
    /\ compat = CompatIdle
    /\ responses = Unobserved
    /\ dedupe = DedupeIdle
    /\ duration = DurationIdle
    /\ walk = WalkIdle

NextFetch ==
    \/ LoopHead
    \/ \E error \in NetworkErrors : FetchRejects(error)
    \/ \E status \in Statuses : FetchResponds(status)
    \/ \E error \in NetworkErrors : TextRejects(error)
    \/ \E body \in Bodies : TextResolves(body)

SpecFetch == InitFetch /\ [][NextFetch]_vars

(***************************************************************************)
(* Claims on one fetchApiJson request                                      *)
(***************************************************************************)
FetchEnded == fetchJson.pc = "done"
FetchAttempts == fetchJson.attempts
LastAttempt == FetchAttempts[Len(FetchAttempts)]
\* the effective retry count r: the caller's value truncated and not below
\* zero, 1 when there is none or it is not finite
EffectiveRetries ==
    LET given == OptionOf(fetchJson.options, "retries")
    IN  IF given # Null /\ Val(given).finite
        THEN (IF trunc(Val(given)) < 0 THEN 0 ELSE trunc(Val(given))) ELSE 1
FetchThrew(a) == a.end = "threw" /\ a.status = Null
BodyReadThrew(a) == a.end = "threw" /\ a.status # Null
Aborted(a) == a.end = "threw" /\ Val(a.error).name = "AbortError"
FetchFailedWith(reasonCode) ==
    /\ FetchEnded
    /\ ~Val(fetchJson.result).ok
    /\ Val(fetchJson.result).error.reasonCode = reasonCode
\* the parts of C12 that do not depend on what counts as a network-level
\* failure: at most r+1 attempts, one after another, and after r+1 failed
\* attempts a failure result, timeout when the last failure was an abort
AttemptsBounded ==
    /\ Len(FetchAttempts) <= EffectiveRetries + 1
    /\ \A i \in 1..(Len(FetchAttempts) - 1) : FetchAttempts[i].end # "running"
    /\ FetchEnded => Len(FetchAttempts) >= 1 /\ LastAttempt.end # "running"
    /\ (Len(FetchAttempts) = EffectiveRetries + 1 /\ LastAttempt.end = "threw") =>
          IF Aborted(LastAttempt) THEN FetchFailedWith("timeout")
          ELSE FetchFailedWith("network_error")

(***************************************************************************)
(* C12 as stated: at most r+1 attempts are made, one after another; every  *)
(* attempt but the last is one whose fetch threw; an attempt that received *)
(* an HTTP response is the last one and the request ends with it; after    *)
(* r+1 failed attempts the request has ended with network_error, or with   *)
(* timeout when the last failure was an abort.                             *)
(***************************************************************************)
C12_RetryOnlyAfterFetchThrew ==
    /\ AttemptsBounded
    /\ \A i \in 1..(Len(FetchAttempts) - 1) : FetchThrew(FetchAttempts[i])
    /\ \A i \in 1..Len(FetchAttempts) :
          (FetchAttempts[i].status # Null /\ FetchAttempts[i].end # "running") =>
              i = Len(FetchAttempts) /\ FetchEnded

(***************************************************************************)
(* C12 amended: at most r+1 attempts are made, one after another; every    *)
(* attempt but the last is one that threw, either in the fetch or, after a *)
(* 2xx response, in reading the body; an attempt that returned (a non-2xx  *)
(* response, or a 2xx response whose body was read) is the last one and    *)
(* the request has ended; a thrown attempt ends the request only when it   *)
(* is attempt r+1, and then with network_error, or timeout when it was     *)
(* aborted.                                                                *)
(***************************************************************************)
C12_RetryOnlyAfterThrownAttempt ==
    /\ AttemptsBounded
    /\ \A i \in 1..(Len(FetchAttempts) - 1) : FetchAttempts[i].end = "threw"
    /\ \A i \in 1..Len(FetchAttempts) :
          /\ FetchAttempts[i].end = "returned" => i = Len(FetchAttempts) /\ FetchEnded
          /\ BodyReadThrew(FetchAttempts[i]) => responseOk(Val(FetchAttempts[i].status))
    /\ (FetchEnded /\ LastAttempt.end = "threw") =>
          Len(FetchAttempts) = EffectiveRetries + 1

\* a fractional retry count of 1.5 gives two attempts: the body of the first
\* 2xx response could not be read, the second attempt was aborted
C12_BodyReadFailureRetried ==
    /\ FetchEnded
    /\ OptionOf(fetchJson.options, "retries") = Some(JsNumber(15))
    /\ Len(FetchAttempts) = 2
    /\ BodyReadThrew(FetchAttempts[1])
    /\ FetchThrew(FetchAttempts[2]) /\ Aborted(FetchAttempts[2])
    /\ FetchFailedWith("timeout")

(***************************************************************************)
(* C13 as stated: an attempt that was cancelled by its timeout (the abort  *)
(* signal) is the last attempt of its request, and the request has ended   *)
(* with reasonCode timeout.                                                *)
(***************************************************************************)
C13_AbortedAttemptIsTerminal ==
    \A i \in 1..Len(FetchAttempts) :
        Aborted(FetchAttempts[i]) =>
            i = Len(FetchAttempts) /\ FetchFailedWith("timeout")

(***************************************************************************)
(* C13 amended: an attempt cancelled by its timeout is treated like any    *)
(* other thrown attempt.  When it is attempt r+1 it is the last one and    *)
(* the request has ended with reasonCode timeout; when it is an earlier    *)
(* attempt the request has not ended with it: the loop goes on to the next *)
(* attempt, and the result is that of a later attempt.                     *)
(***************************************************************************)
C13_AbortedAttemptEndsOnlyWhenLast ==
    \A i \in 1..Len(FetchAttempts) :
        Aborted(FetchAttempts[i]) =>
            IF i = EffectiveRetries + 1
            THEN i = Len(FetchAttempts) /\ FetchFailedWith("timeout")
            ELSE \/ i = Len(FetchAttempts) /\ fetchJson.pc = "loop"
                 \/ i < Len(FetchAttempts)

\* the first attempt was aborted, the second one returned valid JSON
C13_OkAfterAbortedAttempt ==
    /\ FetchEnded
    /\ Len(FetchAttempts) = 2
    /\ FetchThrew(FetchAttempts[1]) /\ Aborted(FetchAttempts[1])
    /\ Val(fetchJson.result).ok

(***************************************************************************)
(* C14 as stated: an attempt that received an HTTP response is the last    *)
(* attempt and the request has ended with the result that response gives:  *)
(* 404 not_found; 401, 403, 429 upstream_blocked; 408, 504 timeout; any    *)
(* other non-2xx status network_error; a 2xx status with a body that is    *)
(* empty, only white space or not valid JSON malformed_payload; a 2xx      *)
(* status with valid JSON ok.  The request is ok in no other case.         *)
(***************************************************************************)
BodyIsBlank == \A k \in 1..Len(Val(fetchJson.body).raw) : IsSpace(Val(fetchJson.body).raw[k])
ClassifiedFrom(status) ==
    IF status = 404 THEN FetchFailedWith("not_found")
    ELSE IF status \in {401, 403, 429} THEN FetchFailedWith("upstream_blocked")
    ELSE IF status \in {408, 504} THEN FetchFailedWith("timeout")
    ELSE IF status < 200 \/ status > 299 THEN FetchFailedWith("network_error")
    ELSE /\ fetchJson.body # Null
         /\ IF BodyIsBlank \/ Val(fetchJson.body).json = Null
            THEN FetchFailedWith("malformed_payload")
            ELSE FetchEnded /\ Val(fetchJson.result) = apiOk(Val(Val(fetchJson.body).json))
OkOnlyFromValidJson ==
    (FetchEnded /\ Val(fetchJson.result).ok) =>
        /\ LastAttempt.status # Null /\ responseOk(Val(LastAttempt.status))
        /\ fetchJson.body # Null /\ ~BodyIsBlank /\ Val(fetchJson.body).json # Null
C14_ResponseClassifiedNeverRetried ==
    /\ \A i \in 1..Len(FetchAttempts) :
          (FetchAttempts[i].status # Null /\ FetchAttempts[i].end # "running") =>
              i = Len(FetchAttempts) /\ ClassifiedFrom(Val(FetchAttempts[i].status))
    /\ OkOnlyFromValidJson

(***************************************************************************)
(* C14 amended: an attempt that returned with an HTTP response (a non-2xx  *)
(* response, or a 2xx response whose body was read) is the last attempt    *)
(* and the request has ended with the result that response gives, as       *)
(* listed in C14.  A 2xx response whose body could not be read is not      *)
(* classified: the attempt counts as thrown, it is followed by a further   *)
(* attempt unless it is attempt r+1, and then the request ends with        *)
(* network_error or timeout.  The request is ok only from a 2xx response   *)
(* with valid JSON.                                                        *)
(***************************************************************************)
C14_ReturnedResponseClassified ==
    /\ \A i \in 1..Len(FetchAttempts) :
          /\ (FetchAttempts[i].status # Null /\ FetchAttempts[i].end = "returned") =>
                i = Len(FetchAttempts) /\ ClassifiedFrom(Val(FetchAttempts[i].status))
          /\ (BodyReadThrew(FetchAttempts[i]) /\ i = Len(FetchAttempts) /\ FetchEnded) =>
                /\ i = EffectiveRetries + 1
                /\ IF Aborted(FetchAttempts[i]) THEN FetchFailedWith("timeout")
                   ELSE FetchFailedWith("network_error")
    /\ OkOnlyFromValidJson

\* the body of a first 2xx response could not be read; the second attempt
\* received status 429 and the request ended as upstream_blocked
C14_BlockedAfterUnreadBody ==
    /\ Len(FetchAttempts) = 2
    /\ BodyReadThrew(FetchAttempts[1])
    /\ FetchAttempts[2].status = Some(429)
    /\ FetchFailedWith("upstream_blocked")

(***************************************************************************)
(* Claims on the diagnostics of a returned outcome                         *)
(***************************************************************************)
ReturnedDiagnostics == Val(outcome).diagnostics
AttemptsMatchPipeline(attempts, pipeline) ==
    /\ Len(attempts) = Len(pipeline)
    /\ \A i \in 1..Len(attempts) : attempts[i].source = pipeline[i]
EarlierAttemptsFailed(attempts) ==
    \A i \in 1..(Len(attempts) - 1) : ~attempts[i].ok /\ attempts[i].reasonCode # Null
OkIffLastAttemptOk(attempts) ==
    Val(outcome).ok <=> (attempts # <<>> /\ attempts[Len(attempts)].ok)

(***************************************************************************)
(* C15 as stated: in every returned outcome diagnostics.attempts has       *)
(* exactly one entry per entry of diagnostics.pipeline, in the same order  *)
(* and with the same source; every entry before the last has ok = false    *)
(* and a reasonCode; the outcome is ok exactly when the last attempt is.   *)
(***************************************************************************)
C15_OneAttemptPerPipelineEntry ==
    Returned =>
        /\ AttemptsMatchPipeline(ReturnedDiagnostics.attempts, ReturnedDiagnostics.pipeline)
        /\ EarlierAttemptsFailed(ReturnedDiagnostics.attempts)
        /\ OkIffLastAttemptOk(ReturnedDiagnostics.attempts)

(***************************************************************************)
(* C15 amended: in every returned outcome every attempt before the last    *)
(* has ok = false and a reasonCode, and the outcome is ok exactly when the *)
(* last attempt is.  When the source URL passed validation and no step     *)
(* threw, attempts has exactly one entry per pipeline entry, in the same   *)
(* order and with the same source.  When the source URL failed validation  *)
(* the pipeline is empty and attempts is the single failed entry with      *)
(* source api and reasonCode invalid_url.  When a step threw, attempts has *)
(* one entry per pipeline entry, in order and with the same source,        *)
(* followed by one more failed entry with reasonCode network_error.        *)
(***************************************************************************)
C15_AttemptsFollowPipeline ==
    Returned =>
        LET attempts == ReturnedDiagnostics.attempts
            pipeline == ReturnedDiagnostics.pipeline
        IN  /\ EarlierAttemptsFailed(attempts)
            /\ OkIffLastAttemptOk(attempts)
            /\ (fault = Null /\ norm # Null) => AttemptsMatchPipeline(attempts, pipeline)
            /\ (fault = Null /\ norm = Null) =>
                  /\ pipeline = <<>>
                  /\ Len(attempts) = 1
                  /\ attempts[1].source = "api"
                  /\ ~attempts[1].ok
                  /\ attempts[1].reasonCode = Some("invalid_url")
            /\ fault # Null =>
                  /\ Len(attempts) = Len(pipeline) + 1
                  /\ AttemptsMatchPipeline(SubSeq(attempts, 1, Len(pipeline)), pipeline)
                  /\ ~attempts[Len(attempts)].ok
                  /\ attempts[Len(attempts)].reasonCode = Some("network_error")

\* a call with a lookalike host has returned: one attempt, no pipeline entry
C15_InvalidUrlAttemptWithoutPipeline ==
    /\ Returned
    /\ fault = Null
    /\ ~UrlIsValid(call.sourceUrl)
    /\ ReturnedDiagnostics.pipeline = <<>>
    /\ Len(ReturnedDiagnostics.attempts) = 1

(***************************************************************************)
(* Model download: file names, extensions, the fetch with its byte cap     *)
(***************************************************************************)
MODEL_FETCH_TIMEOUT_MS == 20000
MAX_UPLOAD_BYTES == 52428800
DefaultModelName == <<"m", "a", "k", "e", "r", "w", "o", "r", "l", "d", "-", "m", "o", "d", "e", "l">>
SetMax(S) == CHOOSE x \in S : \A y \in S : y <= x

\* path.basename and path.extname (posix)
basename(p) ==
    LET cut(last, slashes) ==
            SubSeq(p, IF slashes = {} THEN 1 ELSE SetMax(slashes) + 1, last)
        upTo(last) == cut(last, {i \in 1..last : p[i] = "/"})
        solid == {i \in 1..Len(p) : p[i] # "/"}
    IN  IF solid = {} THEN <<>> ELSE upTo(SetMax(solid))
extname(p) ==
    LET from(b, dots) == IF dots = {} THEN <<>> ELSE SubSeq(b, SetMax(dots), Len(b))
        of(b) == from(b, {i \in 2..Len(b) : b[i] = "."})
    IN  of(basename(p))

\* decodeURIComponent: Null when it throws (a % that no two hexadecimal
\* digits follow); %20 is a space, %2E a dot, any other escape is some
\* other character
IsHex(c) == IsDigit(c) \/ c \in {"a", "b", "c", "d", "e", "f", "A", "B", "C", "D", "E", "F"}
PercentChar(a, b) ==
    IF a = "2" /\ b = "0" THEN " "
    ELSE IF a = "2" /\ b \in {"e", "E"} THEN "."
    ELSE "?"
RECURSIVE decodeURIComponent(_)
decodeURIComponent(s) ==
    LET prepend(c, rest) == IF rest = Null THEN Null ELSE Some(<<c>> \o Val(rest))
    IN  IF s = <<>> THEN Some(<<>>)
        ELSE IF s[1] # "%" THEN prepend(s[1], decodeURIComponent(Tail(s)))
        ELSE IF Len(s) < 3 THEN Null
        ELSE IF ~IsHex(s[2]) \/ ~IsHex(s[3]) THEN Null
        ELSE prepend(PercentChar(s[2], s[3]), decodeURIComponent(SubSeq(s, 4, Len(s))))

Ext3mf == <<"3", "m", "f">>
ExtStl == <<"s", "t", "l">>
ExtObj == <<"o", "b", "j">>
normalizeModelExtension(extension) ==
    LET accept(normalized) ==
            IF normalized \in {ExtStl, ExtObj, Ext3mf} THEN Some(normalized) ELSE Null
        strip(lower) == accept(IF lower # <<>> /\ lower[1] = "." THEN Tail(lower) ELSE lower)
    IN  IF extension = <<>> THEN Null ELSE strip(toLowerCase(extension))

fileNameFromDownloadUrl(url) ==
    LET named(decoded) ==
            IF decoded = Null THEN DefaultModelName
            ELSE IF Val(decoded) = <<>> THEN DefaultModelName ELSE Val(decoded)
        of(parsed) ==
            IF ~parsed.ok THEN DefaultModelName
            ELSE named(decodeURIComponent(basename(parsed.pathname)))
    IN  of(ParseUrl(url))

\* the regular expressions of parseContentDispositionFilename: the token,
\* in any letter case, followed by the longest non-empty run of characters
\* outside the stop set; the leftmost match wins
UtfToken == <<"f", "i", "l", "e", "n", "a", "m", "e", "*", "=", "u", "t", "f", "-", "8", "'", "'">>
BasicToken == <<"f", "i", "l", "e", "n", "a", "m", "e", "=">>
RunFrom(s, i, stops) == SubSeq(s, i, i + CutAtFirst(SubSeq(s, i, Len(s)), stops) - 1)
UtfMatchesIn(value, lower) ==
    {i \in 1..Len(value) : /\ OccursAt(lower, UtfToken, i)
                           /\ RunFrom(value, i + Len(UtfToken), {";"}) # <<>>}
UtfMatches(value) == UtfMatchesIn(value, toLowerCase(value))
BasicCapture(value, i) ==
    LET j == i + Len(BasicToken)
        quoted == j <= Len(value) /\ value[j] = "\""
    IN  IF quoted /\ RunFrom(value, j + 1, {"\"", ";"}) # <<>>
        THEN RunFrom(value, j + 1, {"\"", ";"})
        ELSE RunFrom(value, j, {"\"", ";"})
BasicMatchesIn(value, lower) ==
    {i \in 1..Len(value) : /\ OccursAt(lower, BasicToken, i)
                           /\ BasicCapture(value, i) # <<>>}
BasicMatches(value) == BasicMatchesIn(value, toLowerCase(value))
SetMin(S) == CHOOSE x \in S : \A y \in S : x <= y
parseContentDispositionFilename(value) ==
    LET utf(captured, decoded) == IF decoded = Null THEN Some(captured) ELSE decoded
        utfAt(i) == utf(RunFrom(Val(value), i + Len(UtfToken), {";"}),
                        decodeURIComponent(RunFrom(Val(value), i + Len(UtfToken), {";"})))
        basic(trimmed) == IF trimmed = <<>> THEN Null ELSE Some(trimmed)
        basicAt(matches) ==
            IF matches = {} THEN Null
            ELSE basic(trim(BasicCapture(Val(value), SetMin(matches))))
        first(matches) ==
            IF matches # {} THEN utfAt(SetMin(matches))
            ELSE basicAt(BasicMatches(Val(value)))
    IN  IF value = Null THEN Null
        ELSE IF Val(value) = <<>> THEN Null
        ELSE first(UtfMatches(Val(value)))

TokZip == <<"z", "i", "p">>
TokSla == <<"s", "l", "a">>
inferModelExtension(explicitFilename, finalUrl, contentType) ==
    LET byType(type) ==
            IF includes(type, Ext3mf) \/ includes(type, TokZip) THEN Some(Ext3mf)
            ELSE IF includes(type, ExtStl) \/ includes(type, TokSla) THEN Some(ExtStl)
            ELSE IF includes(type, ExtObj) THEN Some(ExtObj)
            ELSE Null
        byUrl(urlExt) ==
            IF urlExt # Null THEN urlExt
            ELSE byType(toLowerCase(IF contentType = Null THEN <<>> ELSE Val(contentType)))
        byName(explicitExt) ==
            IF explicitExt # Null THEN explicitExt
            ELSE byUrl(normalizeModelExtension(extname(fileNameFromDownloadUrl(finalUrl))))
    IN  byName(normalizeModelExtension(extname(explicitFilename)))

\* Number(response.headers.get("content-length") ?? 0): the digits of the
\* header, 0 without header, NaN for any other text
NaN == [nan |-> TRUE, value |-> 0]
NumberOfHeader(header) ==
    IF header = Null THEN [nan |-> FALSE, value |-> 0]
    ELSE IF Val(header) # <<>> /\ \A i \in 1..Len(Val(header)) : IsDigit(Val(header)[i])
    THEN [nan |-> FALSE, value |-> NumberOfDigits(Val(header))]
    ELSE NaN

\* /abort|timed out/i.test(message)
TokAbort == <<"a", "b", "o", "r", "t">>
TokTimedOut == <<"t", "i", "m", "e", "d", " ", "o", "u", "t">>
matchesAbortOrTimedOut(message) ==
    includes(toLowerCase(message), TokAbort) \/ includes(toLowerCase(message), TokTimedOut)

\* the options of a download call (the makerworld.ts that takes them is not
\* in src/): maxBytes, timeoutMs and headers override the defaults
DOWNLOAD_HEADERS == ("user-agent" :> "3d-printing-service/1.0") @@ ("accept" :> "*/*")
downloadMaxBytes(options) ==
    IF OptionOf(options, "maxBytes") = Null THEN MAX_UPLOAD_BYTES
    ELSE Val(OptionOf(options, "maxBytes"))
downloadTimeoutMs(options) ==
    IF OptionOf(options, "timeoutMs") = Null THEN MODEL_FETCH_TIMEOUT_MS
    ELSE Val(OptionOf(options, "timeoutMs"))
downloadHeaders(options) ==
    IF OptionOf(options, "headers") = Null THEN DOWNLOAD_HEADERS
    ELSE Val(OptionOf(options, "headers")) @@ DOWNLOAD_HEADERS

\* the catch block of fetchModelFileWithLimit
downloadFailure(reasonCode, message) ==
    [ok |-> FALSE, state |-> "unavailable", reasonCode |-> reasonCode, message |-> message]
catchDownloadError(error) ==
    IF matchesAbortOrTimedOut(error.message)
    THEN downloadFailure("timeout", "MakerWorld model download timed out.")
    ELSE downloadFailure("download_unavailable", error.message)

TooLargeMessage == "MakerWorld model is too large (max 50MB on current plan)."
\* the two size checks of fetchModelFileWithLimit
declaredTooLargeIgnored(contentLength, maxBytes) == FALSE
declaredTooLarge(contentLength, maxBytes) ==
    ~contentLength.nan /\ contentLength.value > 0 /\ contentLength.value > maxBytes
bodyTooLargeOffByOne(byteLength, maxBytes) == byteLength > maxBytes + 1
bodyTooLarge(byteLength, maxBytes) == byteLength > maxBytes

\* downloadMakerWorldModelFile after a successful fetch: base filename,
\* extension, filename
baseFilenameOf(headerFilename, fallbackFilename) ==
    LET orDefault(trimmed) == IF trimmed = <<>> THEN DefaultModelName ELSE trimmed
    IN  orDefault(trim(IF headerFilename # Null THEN Val(headerFilename) ELSE fallbackFilename))
filenameOf(baseFilename, extension) ==
    IF endsWith(toLowerCase(baseFilename), <<".">> \o extension) THEN baseFilename
    ELSE baseFilename \o <<".">> \o extension
downloadedOutcome(fetched) ==
    LET finish(baseFilename, extension) ==
            IF extension = Null
            THEN downloadFailure("unsupported_model_format",
                    "Could not detect STL/OBJ/3MF format from MakerWorld download.")
            ELSE [ok |-> TRUE, state |-> "downloaded", byteLength |-> fetched.byteLength,
                  filename |-> filenameOf(baseFilename, Val(extension)),
                  extension |-> Val(extension), contentType |-> fetched.contentType,
                  finalUrl |-> fetched.finalUrl]
        named(baseFilename) ==
            finish(baseFilename,
                   inferModelExtension(baseFilename, fetched.finalUrl, fetched.contentType))
    IN  named(baseFilenameOf(parseContentDispositionFilename(fetched.contentDisposition),
                             fileNameFromDownloadUrl(fetched.finalUrl)))

\* download URLs, responses, bodies and errors
DownloadUrls == { <<"h", "t", "t", "p", "s", ":", "/", "/", "m", "a", "k", "e", "r", "w", "o", "r", "l", "d", ".", "c", "o", "m", "/", "f", "i", "l", "e", "s", "/", "m", "o", "d", "e", "l", ".", "O", "B", "J">> }
DownloadOptions ==
    { Null,
      Some([timeoutMs |-> Some(5000), maxBytes |-> Some(8),
            headers |-> Some("x-mw-download-test" :> "ok")]),
      Some([timeoutMs |-> Null, maxBytes |-> Null,
            headers |-> Some("user-agent" :> "custom-agent/2.0")]) }
DownloadStatuses == {200, 403, 404, 500}
ContentLengths == {Null, Some(<<"a", "b", "c">>), Some(<<"9">>), Some(<<"5", "2", "4", "2", "8", "8", "0", "1">>)}
ContentTypes ==
    {Null, Some(<<"m", "o", "d", "e", "l", "/", "3", "m", "f">>), Some(<<"a", "p", "p", "l", "i", "c", "a", "t", "i", "o", "n", "/", "S", "L", "A">>), Some(<<"m", "o", "d", "e", "l", "/", "o", "b", "j", "+", "z", "i", "p">>),
     Some(<<"m", "o", "d", "e", "l", "/", "o", "b", "j">>), Some(<<"t", "e", "x", "t", "/", "p", "l", "a", "i", "n">>)}
ContentDispositions ==
    {Null, Some(<<"a", "t", "t", "a", "c", "h", "m", "e", "n", "t", ";", " ", "f", "i", "l", "e", "n", "a", "m", "e", "=", "\"", "p", "a", "r", "t", ".", "3", "m", "f", "\"">>),
     Some(<<"a", "t", "t", "a", "c", "h", "m", "e", "n", "t", ";", " ", "f", "i", "l", "e", "n", "a", "m", "e", "*", "=", "U", "T", "F", "-", "8", "'", "'", "m", "y", "%", "2", "0", "p", "a", "r", "t", ".", "S", "T", "L">>),
     Some(<<"a", "t", "t", "a", "c", "h", "m", "e", "n", "t", ";", " ", "f", "i", "l", "e", "n", "a", "m", "e", "*", "=", "U", "T", "F", "-", "8", "'", "'", "%", "2", "0">>),
     Some(<<"a", "t", "t", "a", "c", "h", "m", "e", "n", "t", ";", " ", "F", "i", "l", "e", "N", "a", "m", "e", "=", "n", "o", "t", "e", "s", ".", "t", "x", "t", ";", " ", "s", "i", "z", "e", "=", "3">>),
     Some(<<"i", "n", "l", "i", "n", "e">>)}
ResponseUrls ==
    {<<>>, <<"h", "t", "t", "p", "s", ":", "/", "/", "c", "d", "n", ".", "m", "a", "k", "e", "r", "w", "o", "r", "l", "d", ".", "c", "o", "m", "/", "f", "i", "l", "e", "s", "/", "p", "a", "r", "t", ".", "s", "t", "l", "?", "s", "i", "g", "=", "1">>,
     <<"h", "t", "t", "p", "s", ":", "/", "/", "c", "d", "n", ".", "m", "a", "k", "e", "r", "w", "o", "r", "l", "d", ".", "c", "o", "m", "/">>, <<"h", "t", "t", "p", "s", ":", "/", "/", "c", "d", "n", ".", "m", "a", "k", "e", "r", "w", "o", "r", "l", "d", ".", "c", "o", "m", "/", "f", "i", "l", "e", "s", "/", "b", "a", "d", "%", "z", "z", ".", "o", "b", "j">>}
Responses ==
    [status : DownloadStatuses, contentLength : ContentLengths, contentType : ContentTypes,
     contentDisposition : ContentDispositions, url : ResponseUrls]
ByteLengths == {4, 8, 9, MAX_UPLOAD_BYTES, MAX_UPLOAD_BYTES + 1}
DownloadErrors ==
    { [name |-> "AbortError", message |-> <<"T", "h", "i", "s", " ", "o", "p", "e", "r", "a", "t", "i", "o", "n", " ", "w", "a", "s", " ", "a", "b", "o", "r", "t", "e", "d">>],
      [name |-> "TypeError", message |-> <<"f", "e", "t", "c", "h", " ", "f", "a", "i", "l", "e", "d">>] }

\* downloadMakerWorldModelFile(downloadUrl, options) is called and
\* fetchModelFileWithLimit has started the fetch
DownloadCall(downloadUrl, options) ==
    [pc |-> "fetching", downloadUrl |-> downloadUrl, options |-> options,
     headers |-> downloadHeaders(options), timeoutMs |-> downloadTimeoutMs(options),
     maxBytes |-> downloadMaxBytes(options),
     response |-> Null, error |-> Null, bodyRead |-> FALSE, byteLength |-> Null,
     outcome |-> Null]

\* await fetch(...) rejects
DownloadFetchRejects(error) ==
    /\ download.pc = "fetching"
    /\ download' = [download EXCEPT !.pc = "done", !.error = Some(error),
                                    !.outcome = Some(catchDownloadError(error))]
    /\ UNCHANGED <<pc, call, norm, diagnostics, outcome, requests, stage,
                   apiResolved, fallbackResolved, fault, fin, fetchJson, compat, responses>>
    /\ UNCHANGED <<dedupe, duration, walk>>

\* await fetch(...) resolves: the status and the declared length are
\* checked, then the body is read
DownloadResponds(response) ==
    /\ download.pc = "fetching"
    /\ download' =
          IF ~responseOk(response.status)
          THEN [download EXCEPT
                   !.pc = "done", !.response = Some(response),
                   !.outcome = Some(downloadFailure(
                       IF response.status = 404 THEN "not_found" ELSE "download_unavailable",
                       "MakerWorld model download failed (" \o ToString(response.status) \o ")."))]
          ELSE IF declaredTooLarge(NumberOfHeader(response.contentLength), download.maxBytes)
          THEN [download EXCEPT
                   !.pc = "done", !.response = Some(response),
                   !.outcome = Some(downloadFailure("download_unavailable", TooLargeMessage))]
          ELSE [download EXCEPT !.pc = "reading", !.response = Some(response)]
    /\ UNCHANGED <<pc, call, norm, diagnostics, outcome, requests, stage,
                   apiResolved, fallbackResolved, fault, fin, fetchJson, compat, responses>>
    /\ UNCHANGED <<dedupe, duration, walk>>

\* await response.arrayBuffer() rejects
ArrayBufferRejects(error) ==
    /\ download.pc = "reading"
    /\ download' = [download EXCEPT !.pc = "done", !.error = Some(error),
                                    !.outcome = Some(catchDownloadError(error))]
    /\ UNCHANGED <<pc, call, norm, diagnostics, outcome, requests, stage,
                   apiResolved, fallbackResolved, fault, fin, fetchJson, compat, responses>>
    /\ UNCHANGED <<dedupe, duration, walk>>

\* await response.arrayBuffer() resolves: the size check, and the rest of
\* downloadMakerWorldModelFile
ArrayBufferResolves(byteLength) ==
    /\ download.pc = "reading"
    /\ LET response == Val(download.response)
           fetched == [byteLength |-> byteLength,
                       finalUrl |-> IF response.url # <<>> THEN response.url
                                    ELSE download.downloadUrl,
                       contentType |-> response.contentType,
                       contentDisposition |-> response.contentDisposition]
       IN  download' =
              [download EXCEPT
                  !.pc = "done", !.bodyRead = TRUE, !.byteLength = Some(byteLength),
                  !.outcome =
                      IF bodyTooLarge(byteLength, download.maxBytes)
                      THEN Some(downloadFailure("download_unavailable", TooLargeMessage))
                      ELSE Some(downloadedOutcome(fetched))]
    /\ UNCHANGED <<pc, call, norm, diagnostics, outcome, requests, stage,
                   apiResolved, fallbackResolved, fault, fin, fetchJson, compat, responses>>
    /\ UNCHANGED <<dedupe, duration, walk>>

InitDownload ==
    /\ pc = "idle"
    /\ call = [sourceUrl |-> <<>>, variantId |-> Null, request |-> Null]
    /\ norm = Null
    /\ diagnostics = [pipeline |-> <<>>, warnings |-> <<>>, attempts |-> <<>>]
    /\ outcome = Null
    /\ requests = <<>>
    /\ stage = NoStage
    /\ apiResolved = Null
    /\ fallbackResolved = Null
    /\ fault = Null
    /\ fin = FinIdle
    /\ fetchJson = FetchIdle
    /\ \E downloadUrl \in DownloadUrls, options \in DownloadOptions :
          download = DownloadCall(downloadUrl, options)
    /\ compat = CompatIdle
    /\ responses = Unobserved
    /\ dedupe = DedupeIdle
    /\ duration = DurationIdle
    /\ walk = WalkIdle

NextDownload ==
    \/ \E error \in DownloadErrors : DownloadFetchRejects(error)
    \/ \E response \in Responses : DownloadResponds(response)
    \/ \E error \in DownloadErrors : ArrayBufferRejects(error)
    \/ \E byteLength \in ByteLengths : ArrayBufferResolves(byteLength)

SpecDownload == InitDownload /\ [][NextDownload]_vars

(***************************************************************************)
(* Claims on one download                                                  *)
(***************************************************************************)
DownloadEnded == download.pc = "done"
DownloadOutcome == Val(download.outcome)
DownloadResponse == Val(download.response)
DownloadFailedWith(reasonCode) ==
    DownloadEnded /\ ~DownloadOutcome.ok /\ DownloadOutcome.reasonCode = reasonCode
\* the fetch succeeded: a 2xx response whose body was read and is within
\* the cap
Fetched ==
    /\ DownloadEnded /\ download.bodyRead
    /\ Val(download.byteLength) <= download.maxBytes
FinalUrl == IF DownloadResponse.url # <<>> THEN DownloadResponse.url ELSE download.downloadUrl
HeaderFilename == parseContentDispositionFilename(DownloadResponse.contentDisposition)
\* the basename of the final URL's path, Null when there is none
UrlBasename ==
    LET decoded(name) == IF name = Null \/ name = Some(<<>>) THEN Null ELSE name
    IN  IF ~ParseUrl(FinalUrl).ok THEN Null
        ELSE decoded(decodeURIComponent(basename(ParseUrl(FinalUrl).pathname)))
UrlOrLiteralName == IF UrlBasename # Null THEN Val(UrlBasename) ELSE DefaultModelName
AllowedExtension(name) ==
    LET ext == toLowerCase(extname(name))
    IN  IF ext \in {<<".">> \o ExtStl, <<".">> \o ExtObj, <<".">> \o Ext3mf}
        THEN Some(Tail(ext)) ELSE Null
ContentTypeExtension ==
    LET type == toLowerCase(IF DownloadResponse.contentType = Null THEN <<>>
                            ELSE Val(DownloadResponse.contentType))
    IN  IF includes(type, Ext3mf) \/ includes(type, TokZip) THEN Some(Ext3mf)
        ELSE IF includes(type, ExtStl) \/ includes(type, TokSla) THEN Some(ExtStl)
        ELSE IF includes(type, ExtObj) THEN Some(ExtObj)
        ELSE Null
ExtensionFor(base) ==
    IF AllowedExtension(base) # Null THEN AllowedExtension(base)
    ELSE IF AllowedExtension(UrlOrLiteralName) # Null THEN AllowedExtension(UrlOrLiteralName)
    ELSE ContentTypeExtension
\* the outcome C16 describes for a base filename
OutcomeFor(base) ==
    IF ExtensionFor(base) = Null
    THEN DownloadFailedWith("unsupported_model_format")
    ELSE /\ DownloadOutcome.ok
         /\ DownloadOutcome.extension = Val(ExtensionFor(base))
         /\ endsWith(toLowerCase(DownloadOutcome.filename), <<".">> \o Val(ExtensionFor(base)))
         /\ DownloadOutcome.filename =
               IF endsWith(toLowerCase(base), <<".">> \o Val(ExtensionFor(base)))
               THEN base ELSE base \o <<".">> \o Val(ExtensionFor(base))

(***************************************************************************)
(* C16: for a fetched download the base filename is the Content-           *)
(* Disposition filename if present, else the basename of the final URL's   *)
(* path, else 'makerworld-model'; the extension is the first of stl, obj,  *)
(* 3mf given by the base filename's extension, the final URL's extension,  *)
(* the content type (3mf or zip: 3mf; then stl or sla: stl; then obj:      *)
(* obj); without one the outcome is the failure unsupported_model_format,  *)
(* otherwise it succeeds with that extension and a filename that is the    *)
(* base filename, followed by '.<extension>' unless it ends with it        *)
(* already (in any letter case).  The Content-Disposition filename is      *)
(* taken without surrounding white space; one that is blank is read either *)
(* as present (and then is the base filename) or as absent (and then the   *)
(* URL basename is).                                                       *)
(***************************************************************************)
C16_FilenameAndExtension ==
    Fetched =>
        IF HeaderFilename # Null /\ trim(Val(HeaderFilename)) # <<>>
        THEN OutcomeFor(trim(Val(HeaderFilename)))
        ELSE IF HeaderFilename # Null
        THEN OutcomeFor(trim(Val(HeaderFilename))) \/ OutcomeFor(trim(UrlOrLiteralName))
        ELSE OutcomeFor(trim(UrlOrLiteralName))

(***************************************************************************)
(* C17: a 2xx response that declares a Content-Length above the byte cap   *)
(* is rejected with download_unavailable and its body is not read; a body  *)
(* larger than the cap is rejected with download_unavailable after the     *)
(* read; every successful outcome has byteLength <= cap.  Status 404 gives *)
(* not_found, any other non-2xx status download_unavailable, an aborted    *)
(* fetch timeout.                                                          *)
(***************************************************************************)
DeclaredLength ==
    LET header == DownloadResponse.contentLength
    IN  IF header # Null /\ \A i \in 1..Len(Val(header)) : IsDigit(Val(header)[i])
        THEN NumberOfDigits(Val(header)) ELSE 0
Is2xx(status) == status \in 200..299
C17_ByteCapEnforced ==
    DownloadEnded =>
        /\ (download.response # Null /\ DownloadResponse.status = 404) =>
              DownloadFailedWith("not_found")
        /\ (download.response # Null /\ ~Is2xx(DownloadResponse.status)
                /\ DownloadResponse.status # 404) =>
              DownloadFailedWith("download_unavailable")
        /\ (download.response # Null /\ Is2xx(DownloadResponse.status)
                /\ DeclaredLength > download.maxBytes) =>
              DownloadFailedWith("download_unavailable") /\ ~download.bodyRead
        /\ (download.bodyRead /\ Val(download.byteLength) > download.maxBytes) =>
              DownloadFailedWith("download_unavailable")
        /\ DownloadOutcome.ok =>
              download.bodyRead /\ DownloadOutcome.byteLength <= download.maxBytes
        /\ (download.error # Null /\ Val(download.error).name = "AbortError") =>
              DownloadFailedWith("timeout")

\* a response that declares one byte more than the default cap was rejected
\* without its body being read
C17_DeclaredLengthRejectedUnread ==
    /\ DownloadEnded
    /\ download.options = Null
    /\ download.response # Null /\ DownloadResponse.status = 200
    /\ DeclaredLength = MAX_UPLOAD_BYTES + 1
    /\ ~download.bodyRead
    /\ DownloadFailedWith("download_unavailable")

(***************************************************************************)
(* C18: the options of a download call override the defaults: the fetch is *)
(* made with the caller's headers (merged over the default ones), the      *)
(* caller's maxBytes is the cap of both size checks (a declared length or  *)
(* a body above it gives download_unavailable, also below the default      *)
(* cap), and the caller's timeoutMs is the delay of the abort timer.       *)
(***************************************************************************)
DownloadOption(field) == OptionOf(download.options, field)
BrandPrefixes == { <<>>, <<"B", "a", "m", "b", "u", " ", "L", "a", "b", " ">>, <<"b", "a", "m", "b", "u", "-", "l", "a", "b", "_">> }
PrinterNames ==
    { <<>>, <<"P", "2", "S">>, <<"p", "1", "s">>, <<"P", "1", "P">>, <<"X", "1", "C">>, <<"X", "1", " ", "C", "a", "r", "b", "o", "n">>, <<"x", "1", "-", "c", "a", "r", "b", "o", "n">>,
      <<"A", "1">>, <<"A", "1", " ", "m", "i", "n", "i">>, <<"P", "r", "u", "s", "a", " ", "M", "K", "4">>, <<"P", "r", "u", "s", "a", " ", "M", "K", "4", "S">>, <<"u", "n", "k", "n", "o", "w", "n">> }
CandidatePrinters == { prefix \o name : prefix \in BrandPrefixes, name \in PrinterNames }
ConfiguredPrinters ==
    { PRINTER_MODEL, <<"B", "a", "m", "b", "u", " ", "L", "a", "b", " ", "X", "1", "C">>, <<"p", "1", "p">>, <<"P", "1", "S">>, <<"X", "1", " ", "C", "a", "r", "b", "o", "n">>,
      <<"A", "1">>, <<"A", "1", " ", "m", "i", "n", "i">>, <<"P", "r", "u", "s", "a", " ", "M", "K", "4">> }

CompatCall(candidatePrinter, configuredPrinter) ==
    [ pc |-> "called", candidatePrinter |-> candidatePrinter,
      configuredPrinter |-> configuredPrinter, result |-> FALSE ]

\* the call returns
IsCompatibleReturns ==
    /\ compat.pc = "called"
    /\ compat' = [compat EXCEPT !.pc = "returned",
                     !.result = isCompatiblePrinterName(compat.candidatePrinter,
                                                        compat.configuredPrinter)]
    /\ UNCHANGED <<pc, call, norm, diagnostics, outcome, requests, stage,
                   apiResolved, fallbackResolved, fault, fin>>
    /\ UNCHANGED <<fetchJson, download, responses>>
    /\ UNCHANGED <<dedupe, duration, walk>>

InitCompat ==
    /\ pc = "idle"
    /\ call = [sourceUrl |-> <<>>, variantId |-> Null, request |-> Null]
    /\ norm = Null
    /\ diagnostics = [pipeline |-> <<>>, warnings |-> <<>>, attempts |-> <<>>]
    /\ outcome = Null
    /\ requests = <<>>
    /\ stage = NoStage
    /\ apiResolved = Null
    /\ fallbackResolved = Null
    /\ fault = Null
    /\ fin = FinIdle
    /\ fetchJson = FetchIdle
    /\ download = DownloadIdle
    /\ responses = Unobserved
    /\ dedupe = DedupeIdle
    /\ duration = DurationIdle
    /\ walk = WalkIdle
    /\ compat \in { CompatCall(candidatePrinter, configuredPrinter) :
                        candidatePrinter \in CandidatePrinters,
                        configuredPrinter \in ConfiguredPrinters }

NextCompat == IsCompatibleReturns

SpecCompat == InitCompat /\ [][NextCompat]_vars

(***************************************************************************)
(* Claims about printer compatibility                                      *)
(***************************************************************************)
CompatReturned == compat.pc = "returned"
\* the lowercased alphanumeric form of a printer string
Alphanumeric(printer) == SelectSeq(toLowerCase(printer), IsLowerAlnum)
ClusterFamilyTokens == {TokP2s, TokP1s, TokP1p, TokX1c}
NamesFamily(printer, token) == includes(Alphanumeric(printer), token)
NamesClusterFamily(printer) == \E token \in ClusterFamilyTokens : NamesFamily(printer, token)

\* C19: with a configured target of the core-XY cluster (P2S, and likewise
\* P1S, P1P, X1C, X1 Carbon), every candidate printer string that names a
\* cluster family, in any letter case and with any punctuation or brand
\* prefix, is compatible; so two cluster families are compatible in both
\* directions.
C19_ClusterFamiliesCompatible ==
    (/\ CompatReturned
     /\ NamesClusterFamily(compat.configuredPrinter)
     /\ NamesClusterFamily(compat.candidatePrinter))
        => compat.result

\* a P2S candidate with brand prefix accepted for a configured X1 Carbon
C19_P2SAcceptedForX1Carbon ==
    /\ CompatReturned
    /\ NamesFamily(compat.configuredPrinter, TokX1carbon)
    /\ ~ NamesFamily(compat.configuredPrinter, TokP2s)
    /\ NamesFamily(compat.candidatePrinter, TokP2s)
    /\ NamesFamily(compat.candidatePrinter, BambuLab)
    /\ compat.result

ExplicitCandidateIndex ==
    LET hits == {i \in 1..Len(Candidates) :
                    MetricComplete(Candidates[i]) /\ HasId(Candidates[i], ExplicitId)}
    IN  CHOOSE i \in hits : \A j \in hits : i <= j
\* the positions of the candidate pool in the list of candidates: the
\* printer-compatible metric-complete candidates, else the explicitly
\* requested candidate alone, else every metric-complete candidate
PoolMembers ==
    IF ~StrictPoolEmpty
    THEN {i \in 1..Len(Candidates) :
             PrinterCompatible(Candidates[i]) /\ MetricComplete(Candidates[i])}
    ELSE IF ExplicitIdMatches THEN {ExplicitCandidateIndex}
    ELSE {i \in 1..Len(Candidates) : MetricComplete(Candidates[i])}
AvailableVariants == fin.result.data.availableVariants
ListedOnce(c) ==
    Cardinality({k \in 1..Len(AvailableVariants) :
                    AvailableVariants[k] = toAvailableVariant(c)}) = 1
AscendingByHoursThenGrams(listed) ==
    \A k \in 1..(Len(listed) - 1) :
        \/ listed[k].estimatedHours < listed[k + 1].estimatedHours
        \/ /\ listed[k].estimatedHours = listed[k + 1].estimatedHours
           /\ listed[k].estimatedGrams <= listed[k + 1].estimatedGrams
SelectedEntries ==
    {k \in 1..Len(AvailableVariants) :
        /\ Coalesce(AvailableVariants[k].variantId, AvailableVariants[k].profileId)
              = fin.result.data.selectedVariantId
        /\ AvailableVariants[k].estimatedHours = fin.result.data.sourceProfileEstimatedHours
        /\ AvailableVariants[k].estimatedGrams = fin.result.data.sourceProfileEstimatedGrams}

\* C21: in every successful resolution availableVariants lists every member
\* of the candidate pool exactly once and nothing else, in ascending order
\* of (estimatedHours, estimatedGrams); every entry has estimatedHours > 0
\* and estimatedGrams > 0; and the selected variant is one of the entries,
\* whichever selection strategy was used.
C21_AvailableVariantsSortedPool ==
    Succeeded =>
        /\ Len(AvailableVariants) = Cardinality(PoolMembers)
        /\ \A i \in PoolMembers : ListedOnce(Candidates[i])
        /\ AscendingByHoursThenGrams(AvailableVariants)
        /\ \A k \in 1..Len(AvailableVariants) :
              /\ AvailableVariants[k].estimatedHours > 0
              /\ AvailableVariants[k].estimatedGrams > 0
        /\ SelectedEntries # {}

\* two pool members given in descending order are listed in ascending
\* order, and the caller's choice is the second entry
C21_CallerChoiceListedSecond ==
    /\ Succeeded
    /\ fin.result.data.selectionStrategy = "user_selected_variant"
    /\ Len(Candidates) = 2
    /\ PoolMembers = {1, 2}
    /\ Val(Candidates[1].estimatedHours) > Val(Candidates[2].estimatedHours)
    /\ SelectedEntries = {2}
    /\ AvailableVariants[2] = toAvailableVariant(Candidates[1])

(***************************************************************************)
(* Claims about the API stage and the results its requests got             *)
(***************************************************************************)
Settled == responses.settled
ResultsOf(stageKind, kind, position) ==
    {r.result : r \in {x \in Settled : /\ x.stage = stageKind /\ x.kind = kind
                                       /\ x.position = position}}
HasSettled(stageKind, kind, position) == ResultsOf(stageKind, kind, position) # {}
ResultOf(stageKind, kind, position) ==
    CHOOSE result \in ResultsOf(stageKind, kind, position) : TRUE
Issued(kind) == \E i \in 1..Len(requests) : requests[i].kind = kind
DesignResult == ResultOf("api", "design", 0)
InstancesResult == ResultOf("api", "instances", 0)
ApiStageJoined ==
    \/ apiResolved # Null
    \/ pc \in {"api_enrich", "api_3mf", "api_model"}
ApiStageReturned == apiResolved # Null
ApiStageResult == Val(apiResolved)

\* C22: in the API stage the design and the instances request are both
\* issued before either result is used, and the continuation depends on the
\* instances result only: when the instances request fails the stage fails
\* with exactly that request's reasonCode and message, even when the design
\* request succeeded with variants in its payload; when the instances
\* request succeeds a failed design request does not fail the stage (the
\* stage then fails only for its own reasons, unusable payload or missing
\* metrics).
C22_InstancesResultDecides ==
    /\ (HasSettled("api", "design", 0) \/ HasSettled("api", "instances", 0))
          => (Issued("design") /\ Issued("instances"))
    /\ ApiStageJoined
          => (HasSettled("api", "design", 0) /\ HasSettled("api", "instances", 0))
    /\ (ApiStageReturned /\ ~InstancesResult.ok)
          => /\ ~ApiStageResult.ok
             /\ ApiStageResult.reasonCode = InstancesResult.error.reasonCode
             /\ ApiStageResult.message = InstancesResult.error.message
    /\ (ApiStageReturned /\ InstancesResult.ok /\ ~DesignResult.ok)
          => \/ ApiStageResult.ok
             \/ ApiStageResult.reasonCode \in {"malformed_payload", "missing_profile_metrics"}

\* the instances request was answered 404 while the design payload held a
\* variant: the stage failed with not_found
C22_NotFoundDespiteDesignVariants ==
    /\ ApiStageReturned
    /\ DesignResult.ok /\ DesignResult.data.items # <<>>
    /\ ~InstancesResult.ok
    /\ InstancesResult.error.reasonCode = "not_found"
    /\ ~ApiStageResult.ok /\ ApiStageResult.reasonCode = "not_found"

(***************************************************************************)
(* Claims about profile enrichment                                         *)
(***************************************************************************)
Enriching == pc \in {"api_enrich", "fb_enrich"}
\* the candidates of the running stage as they were before enrichment
ApiInstanceSource ==
    IF InstancesResult.data.items # <<>> THEN InstancesResult.data.items
    ELSE IF DesignResult.ok THEN DesignResult.data.items ELSE <<>>
UnenrichedOf(stageKind) ==
    IF stageKind = "api" THEN dedupeVariants(MapToCandidates(ApiInstanceSource))
    ELSE dedupeVariants(MapToCandidates(
             Val(ResultOf("next_data", "page", 0).nextData).items))
Unenriched == UnenrichedOf(stage.kind)
\* the profile ids requested by the running stage, in order
LastOtherRequest ==
    LET others == {i \in 1..Len(requests) : requests[i].kind # "profile"}
    IN  CHOOSE i \in others : \A j \in others : j <= i
StageProfileRequests ==
    [k \in 1..(Len(requests) - LastOtherRequest) |-> requests[LastOtherRequest + k].arg]
RECURSIVE ProfileIdsNeeded(_)
ProfileIdsNeeded(candidates) ==
    IF candidates = <<>> THEN <<>>
    ELSE LET c == candidates[1]
         IN  (IF /\ c.profileId # Null
                 /\ ~(MetricComplete(c) /\ c.printer # UnknownText /\ c.material # UnknownText)
              THEN <<Val(c.profileId)>> ELSE <<>>)
             \o ProfileIdsNeeded(Tail(candidates))
NeedsNoProfile(c) ==
    \/ c.profileId = Null
    \/ MetricComplete(c) /\ c.printer # UnknownText /\ c.material # UnknownText
ProfileUnusable(result) == ~result.ok \/ ~result.data.isRecord
KnownFieldsKept(before, after) ==
    /\ after.variantId = before.variantId
    /\ after.profileId = before.profileId
    /\ after.name = before.name
    /\ before.printer # UnknownText => after.printer = before.printer
    /\ before.material # UnknownText => after.material = before.material
    /\ before.estimatedHours # Null => after.estimatedHours = before.estimatedHours
    /\ before.estimatedGrams # Null => after.estimatedGrams = before.estimatedGrams
    /\ before.downloadUrl # Null => after.downloadUrl = before.downloadUrl
    /\ before.settingsSummary # <<>> => after.settingsSummary = before.settingsSummary

\* C23: profile enrichment of a candidate never changes its variantId,
\* profileId or name, never replaces a printer or material other than
\* 'unknown', never replaces non-null estimatedHours, estimatedGrams or
\* downloadUrl and never replaces a non-empty settingsSummary; no profile
\* request is made for a candidate without profileId or for one that has
\* complete metrics and a known printer and material; and when the profile
\* request fails or returns a non-object the candidate is left unchanged,
\* while the enrichment of the other candidates completes.
C23_EnrichmentFillsOnlyUnknown ==
    Enriching =>
        /\ Len(stage.enriched) = Len(Unenriched)
        /\ StageProfileRequests = ProfileIdsNeeded(Unenriched)
        /\ \A i \in 1..Len(Unenriched) :
              /\ KnownFieldsKept(Unenriched[i], stage.enriched[i])
              /\ NeedsNoProfile(Unenriched[i])
                    => /\ ~HasSettled(stage.kind, "profile", i)
                       /\ i \notin stage.pending
                       /\ stage.enriched[i] = Unenriched[i]
              /\ ~NeedsNoProfile(Unenriched[i])
                    => (i \in stage.pending <=> ~HasSettled(stage.kind, "profile", i))
              /\ i \in stage.pending => stage.enriched[i] = Unenriched[i]
              /\ (/\ HasSettled(stage.kind, "profile", i)
                  /\ ProfileUnusable(ResultOf(stage.kind, "profile", i)))
                    => stage.enriched[i] = Unenriched[i]

\* the first candidate's profile request failed and left it unchanged; the
\* second one's completed and filled its grams, keeping its printer, hours,
\* download URL and settings summary
C23_FailedProfileBesideFilledOne ==
    /\ pc = "api_enrich"
    /\ stage.pending = {}
    /\ Len(stage.enriched) = 2
    /\ HasSettled("api", "profile", 1)
    /\ ~ResultOf("api", "profile", 1).ok
    /\ stage.enriched[1] = Unenriched[1]
    /\ HasSettled("api", "profile", 2)
    /\ ResultOf("api", "profile", 2) = apiOk(ProfileFull)
    /\ Unenriched[2].estimatedGrams = Null
    /\ stage.enriched[2].estimatedGrams = ProfileFull.estimatedGrams
    /\ stage.enriched[2].printer = PrinterOther
    /\ stage.enriched[2].estimatedHours # ProfileFull.estimatedHours
    /\ stage.enriched[2].downloadUrl # ProfileFull.downloadUrl
    /\ stage.enriched[2].settingsSummary # ProfileFull.settingsSummary

(***************************************************************************)
(* Claims about the download URL of the API stage                          *)
(***************************************************************************)
\* the candidates of a stage after enrichment, from the results recorded
EnrichedOf(stageKind) ==
    LET before == UnenrichedOf(stageKind)
    IN  [i \in 1..Len(before) |->
            IF HasSettled(stageKind, "profile", i)
            THEN mergeProfile(before[i], ResultOf(stageKind, "profile", i))
            ELSE before[i]]
StageTitle(stageKind) ==
    IF stageKind = "api"
    THEN (IF DesignResult.ok THEN DesignResult.data.title ELSE InstancesResult.data.title)
    ELSE Val(ResultOf("next_data", "page", 0).nextData).title
\* the selection of a stage, from the results recorded
SelectionOf(stageKind) ==
    finalizeResolvedData(
        [sourceUrl |-> Val(norm).normalized,
         sourceModelTitle |-> StageTitle(stageKind),
         requestedVariantId |-> Val(norm).requestedVariantId,
         userVariantId |-> Val(norm).userVariantId,
         variants |-> EnrichedOf(stageKind),
         warnings |-> <<>>])
ApiStageSucceeded == apiResolved # Null /\ ApiStageResult.ok
\* the URL the selected variant carries after selection
KnownDownloadUrl == SelectionOf("api").data.downloadUrl
\* the URL a lookup supplied: Null when it failed, found none or was not made
LookupUrl(kind) ==
    IF HasSettled("api", kind, 0) /\ ResultOf("api", kind, 0).ok
    THEN ResultOf("api", kind, 0).data.downloadUrl
    ELSE Null
FinalDownloadUrl == ApiStageResult.data.downloadUrl

\* C24, as stated: download-URL refinement never discards a download URL
\* that is already known: if the selected variant carries a download URL
\* after selection the outcome's downloadUrl is that same URL, and the
\* instance-specific and design-level lookups only supply a URL when none
\* is known (instance-specific first, design-level second).
C24_KnownUrlNeverReplaced ==
    ApiStageSucceeded =>
        FinalDownloadUrl =
            IF KnownDownloadUrl # Null THEN KnownDownloadUrl
            ELSE IF LookupUrl("instance3mf") # Null THEN LookupUrl("instance3mf")
            ELSE LookupUrl("designModel")

\* C24, amended: the outcome's downloadUrl is the URL of the
\* instance-specific lookup when that lookup succeeds and supplies one, also
\* when the selected variant already carries a URL; else the URL the
\* selected variant carries after selection; else the URL of the
\* design-level lookup, which only supplies a URL when none is known.  A
\* failed lookup, or one without a URL, changes nothing.
C24_InstanceUrlFirstThenKnown ==
    ApiStageSucceeded =>
        /\ HasSettled("api", "designModel", 0)
        /\ FinalDownloadUrl =
              IF LookupUrl("instance3mf") # Null THEN LookupUrl("instance3mf")
              ELSE IF KnownDownloadUrl # Null THEN KnownDownloadUrl
              ELSE LookupUrl("designModel")

\* the selected variant carried a URL, the instance-specific lookup supplied
\* another one, and the outcome has the latter
C24_InstanceUrlReplacesKnown ==
    /\ ApiStageSucceeded
    /\ KnownDownloadUrl # Null
    /\ LookupUrl("instance3mf") # Null
    /\ LookupUrl("instance3mf") # KnownDownloadUrl
    /\ FinalDownloadUrl = LookupUrl("instance3mf")

(***************************************************************************)
(* dedupeVariants on its own: candidate lists with colliding keys          *)
(***************************************************************************)
MaxDuplicates == 3

\* candidates of id 1, as variantId or as profileId only, named in either
\* letter case, with or without complete metrics and download URL, and one
\* candidate of id 2
DedupeCandidates ==
    { [MakeCandidate(ids, PrinterP2S, metrics)
          EXCEPT !.name = name, !.downloadUrl = downloadUrl] :
        ids \in {<<Some(1), Null>>, <<Null, Some(1)>>},
        name \in {VariantName, toLowerCase(VariantName)},
        metrics \in {<<Some(10), Some(10)>>, <<Null, Some(10)>>},
        downloadUrl \in {Null, Some("https://makerworld.cdn/files/one.3mf")} }
    \cup { MakeCandidate(<<Some(2), Null>>, PrinterP2S, <<Some(10), Some(10)>>) }
DedupeInputs(n) == ListsUpTo(DedupeCandidates, n)

DedupeCall(variants) == [pc |-> "called", variants |-> variants, result |-> <<>>]

\* the call returns
DedupeReturns ==
    /\ dedupe.pc = "called"
    /\ dedupe' = [dedupe EXCEPT !.pc = "returned",
                                !.result = dedupeVariants(dedupe.variants)]
    /\ UNCHANGED <<pc, call, norm, diagnostics, outcome, requests, stage,
                   apiResolved, fallbackResolved, fault, fin>>
    /\ UNCHANGED <<fetchJson, download, compat, responses, duration, walk>>

InitDedupe ==
    /\ pc = "idle"
    /\ call = [sourceUrl |-> <<>>, variantId |-> Null, request |-> Null]
    /\ norm = Null
    /\ diagnostics = [pipeline |-> <<>>, warnings |-> <<>>, attempts |-> <<>>]
    /\ outcome = Null
    /\ requests = <<>>
    /\ stage = NoStage
    /\ apiResolved = Null
    /\ fallbackResolved = Null
    /\ fault = Null
    /\ fin = FinIdle
    /\ fetchJson = FetchIdle
    /\ download = DownloadIdle
    /\ compat = CompatIdle
    /\ responses = Unobserved
    /\ duration = DurationIdle
    /\ walk = WalkIdle
    /\ dedupe \in {DedupeCall(variants) : variants \in DedupeInputs(MaxDuplicates)}

NextDedupe == DedupeReturns

SpecDedupe == InitDedupe /\ [][NextDedupe]_vars

(***************************************************************************)
(* Claims about deduplication                                              *)
(***************************************************************************)
DedupeReturned == dedupe.pc = "returned"
\* '(variantId ?? profileId ?? none):lowercased name'
KeyOf(c) ==
    <<IF c.variantId # Null THEN c.variantId
      ELSE IF c.profileId # Null THEN c.profileId ELSE <<"none">>,
      toLowerCase(c.name)>>
\* 1 for complete metrics plus 1 for a download URL
ScoreOf(c) ==
    (IF MetricComplete(c) THEN 1 ELSE 0) + (IF c.downloadUrl # Null THEN 1 ELSE 0)
\* the position of the candidate to keep for a key: the earliest of those
\* with the highest score
BestOfKey(variants, key) ==
    LET same == {i \in 1..Len(variants) : KeyOf(variants[i]) = key}
        best == {i \in same : \A j \in same : ScoreOf(variants[j]) <= ScoreOf(variants[i])}
    IN  CHOOSE i \in best : \A j \in best : i <= j

\* C25: after deduplication no two candidates share the key
\* '(variantId ?? profileId ?? none):lowercased name'; for every key of the
\* input the kept candidate is the one with the highest score (1 for
\* complete metrics plus 1 for a download URL) among the candidates with
\* that key, the earliest one on equal score; and deduplicating a
\* deduplicated list returns it unchanged.
C25_DedupeKeepsBestPerKey ==
    DedupeReturned =>
        /\ \A i \in 1..Len(dedupe.result) : \A j \in 1..Len(dedupe.result) :
              KeyOf(dedupe.result[i]) = KeyOf(dedupe.result[j]) => i = j
        /\ \A i \in 1..Len(dedupe.variants) :
              \E k \in 1..Len(dedupe.result) :
                 dedupe.result[k] =
                    dedupe.variants[BestOfKey(dedupe.variants, KeyOf(dedupe.variants[i]))]
        /\ \A k \in 1..Len(dedupe.result) :
              \E i \in 1..Len(dedupe.variants) :
                 /\ KeyOf(dedupe.variants[i]) = KeyOf(dedupe.result[k])
                 /\ dedupe.result[k] =
                       dedupe.variants[BestOfKey(dedupe.variants, KeyOf(dedupe.variants[i]))]
        /\ dedupeVariants(dedupe.result) = dedupe.result

\* three candidates of one key with scores 1, 2 and 2, spelled in different
\* letter case and carrying the id in different fields: the second is kept
C25_SecondOfThreeKept ==
    /\ DedupeReturned
    /\ Len(dedupe.variants) = 3
    /\ ScoreOf(dedupe.variants[1]) = 1
    /\ ScoreOf(dedupe.variants[2]) = 2
    /\ ScoreOf(dedupe.variants[3]) = 2
    /\ dedupe.variants[1].name # dedupe.variants[2].name
    /\ dedupe.variants[2].variantId # dedupe.variants[3].variantId
    /\ dedupe.result = <<dedupe.variants[2]>>


(***************************************************************************)
(* parseDurationHoursByKey on its own.  A duration in hours is the         *)
(* quotient num / den of the value found and the divisor of its unit.      *)
(***************************************************************************)
Hours(num, den) == Some([num |-> num, den |-> den])

\* parseDurationHours of a number: the unit is guessed from the magnitude
parseDurationHours(value) ==
    IF value > 0
    THEN IF value <= 72 THEN Hours(value, 1)
         ELSE IF value <= 7200 THEN Hours(value, 60)
         ELSE Hours(value, 3600)
    ELSE Null

IncludesAny(s, tokens) == \E token \in tokens : includes(s, token)
MillisecondTokens == { <<"m", "s">>, <<"m", "i", "l", "l", "i", "s", "e", "c", "o", "n", "d">> }
SecondTokens ==
    { <<"s", "e", "c", "o", "n", "d">>, <<"s", "e", "c">>, <<"p", "r", "e", "d", "i", "c", "t", "i", "o", "n">>, <<"p", "r", "i", "n", "t", "t", "i", "m", "e">>, <<"p", "r", "i", "n", "t", "_", "t", "i", "m", "e">>,
      <<"c", "o", "s", "t", "t", "i", "m", "e">>, <<"c", "o", "n", "s", "u", "m", "e", "t", "i", "m", "e">>, <<"d", "u", "r", "a", "t", "i", "o", "n">> }
MinuteTokens == { <<"m", "i", "n", "u", "t", "e">>, <<"m", "i", "n">> }
HourTokens == { <<"h", "o", "u", "r">>, <<"h", "r">> }

\* value is a finite number (strings are parsed by parseDurationHours and
\* are not modelled)
parseDurationHoursByKey(key, value) ==
    LET byUnit(normalized) ==
            IF value > 0 /\ IncludesAny(normalized, MillisecondTokens)
            THEN Hours(value, 3600000)
            ELSE IF value > 0 /\ IncludesAny(normalized, SecondTokens)
            THEN Hours(value, 3600)
            ELSE IF value > 0 /\ IncludesAny(normalized, MinuteTokens)
            THEN Hours(value, 60)
            ELSE IF value > 0 /\ IncludesAny(normalized, HourTokens)
            THEN Hours(value, 1)
            ELSE parseDurationHours(value)
    IN  byUnit(toLowerCase(key))

\* keys that match a hint of findDurationByHints, and numeric values: not
\* positive, at most 72, at most 7200, and the 60138 of the plate test
DurationKeys ==
    { <<"p", "r", "e", "d", "i", "c", "t", "i", "o", "n">>, <<"p", "r", "i", "n", "t", "T", "i", "m", "e", "M", "s">>, <<"c", "o", "s", "t", "T", "i", "m", "e">>, <<"d", "u", "r", "a", "t", "i", "o", "n">>, <<"p", "r", "i", "n", "t", "_", "t", "i", "m", "e">>,
      <<"c", "o", "n", "s", "u", "m", "e", "T", "i", "m", "e">>, <<"p", "r", "i", "n", "t", "T", "i", "m", "e", "S", "e", "c", "o", "n", "d", "s">>, <<"e", "s", "t", "i", "m", "a", "t", "e", "d", "M", "i", "n", "u", "t", "e", "s">>,
      <<"e", "s", "t", "i", "m", "a", "t", "e", "d", "H", "o", "u", "r", "s">>, <<"p", "r", "i", "n", "t", "T", "i", "m", "e", "H", "o", "u", "r", "s">>, <<"p", "r", "i", "n", "t", "_", "t", "i", "m", "e", "_", "h", "o", "u", "r", "s">>,
      <<"d", "u", "r", "a", "t", "i", "o", "n", "M", "i", "n", "u", "t", "e", "s">>, <<"e", "s", "t", "i", "m", "a", "t", "e">>, <<"e", "l", "a", "p", "s", "e", "d">>, <<"e", "s", "t", "i", "m", "a", "t", "e", "d", "T", "i", "m", "e">>,
      <<"e", "l", "a", "p", "s", "e", "d", "S", "e", "c">>, <<"e", "s", "t", "i", "m", "a", "t", "e", "d", "H", "r">>, <<"e", "s", "t", "i", "m", "a", "t", "e", "d", "M", "i", "n">> }
DurationValues == {-5, 0, 50, 100, 60138}

DurationCall(key, value) == [pc |-> "called", key |-> key, value |-> value, result |-> Null]

\* the call returns
DurationReturns ==
    /\ duration.pc = "called"
    /\ duration' = [duration EXCEPT !.pc = "returned",
                       !.result = parseDurationHoursByKey(duration.key, duration.value)]
    /\ UNCHANGED <<pc, call, norm, diagnostics, outcome, requests, stage,
                   apiResolved, fallbackResolved, fault, fin>>
    /\ UNCHANGED <<fetchJson, download, compat, responses, dedupe, walk>>

InitDuration ==
    /\ pc = "idle"
    /\ call = [sourceUrl |-> <<>>, variantId |-> Null, request |-> Null]
    /\ norm = Null
    /\ diagnostics = [pipeline |-> <<>>, warnings |-> <<>>, attempts |-> <<>>]
    /\ outcome = Null
    /\ requests = <<>>
    /\ stage = NoStage
    /\ apiResolved = Null
    /\ fallbackResolved = Null
    /\ fault = Null
    /\ fin = FinIdle
    /\ fetchJson = FetchIdle
    /\ download = DownloadIdle
    /\ compat = CompatIdle
    /\ responses = Unobserved
    /\ dedupe = DedupeIdle
    /\ walk = WalkIdle
    /\ duration \in {DurationCall(key, value) : key \in DurationKeys, value \in DurationValues}

NextDuration == DurationReturns

SpecDuration == InitDuration /\ [][NextDuration]_vars

(***************************************************************************)
(* Claims about the unit of a numeric duration                             *)
(***************************************************************************)
DurationReturned == duration.pc = "returned"
KeyContains(token) == includes(toLowerCase(duration.key), token)
\* the words of a key that name a unit, and those that name a duration
NamesMilliseconds == KeyContains(<<"m", "s">>)
NamesSeconds == KeyContains(<<"s", "e", "c", "o", "n", "d">>)
NamesMinutes == KeyContains(<<"m", "i", "n", "u", "t", "e">>)
NamesHours == KeyContains(<<"h", "o", "u", "r">>)
NamesDuration ==
    \E token \in { <<"p", "r", "e", "d", "i", "c", "t", "i", "o", "n">>, <<"p", "r", "i", "n", "t", "t", "i", "m", "e">>, <<"d", "u", "r", "a", "t", "i", "o", "n">>, <<"c", "o", "s", "t", "t", "i", "m", "e">> } :
        KeyContains(token)
DividedBy(divisor) == duration.result = Hours(duration.value, divisor)

\* C26: for a positive numeric value under a key that matches a duration
\* hint the unit is decided by the key alone and not by the magnitude of the
\* value: a key containing 'ms' divides by 3,600,000; a key containing
\* second, or naming a duration (prediction, printtime, duration, costtime)
\* without another unit, divides by 3600, so that prediction = 60138 gives
\* 16.705 hours and prediction = 50 is still seconds; a key containing
\* 'minute' divides by 60; a key containing 'hour' returns the value
\* unchanged as hours.
C26_UnitDecidedByKey ==
    (DurationReturned /\ duration.value > 0) =>
        /\ NamesMilliseconds => DividedBy(3600000)
        /\ (~NamesMilliseconds /\ NamesSeconds) => DividedBy(3600)
        /\ (~NamesMilliseconds /\ NamesMinutes) => DividedBy(60)
        /\ (~NamesMilliseconds /\ NamesHours) => DividedBy(1)
        /\ (/\ NamesDuration
            /\ ~NamesMilliseconds /\ ~NamesMinutes /\ ~NamesHours) => DividedBy(3600)


(***************************************************************************)
(* visitNodes and findNumberByHints, one iteration of the loop at a time.  *)
(* The input is a heap of objects and arrays that may refer to one another *)
(* and to themselves; a value is a number or a reference into the heap.    *)
(***************************************************************************)
MaxNodes == 4
MaxEntries == 2

Primitive(v) == [ref |-> FALSE, v |-> v]
Reference(id) == [ref |-> TRUE, v |-> id]
ObjectIds == {1, 2}
WalkValues == {Primitive(7), Primitive(8)} \cup {Reference(id) : id \in ObjectIds}
WalkHint == <<"p", "r", "e", "d">>
WalkKeys == {<<"P", "r", "e", "d", "i", "c", "t">>, <<"i", "d">>, <<"2">>, <<"1", "0">>}
Entry(key, value) == [key |-> key, value |-> value]
NoKeyTwice(properties) ==
    \A i, j \in 1..Len(properties) : properties[i].key = properties[j].key => i = j
\* the properties of an object in the order of their insertion (no key
\* twice), and the items of an array (which carry no key)
WalkObjects(n) ==
    {[isArray |-> FALSE, entries |-> properties] :
        properties \in {l \in ListsUpTo({Entry(key, value) : key \in WalkKeys,
                                                             value \in WalkValues}, n) :
                            NoKeyTwice(l)}}
    \cup {[isArray |-> TRUE, entries |-> items] :
        items \in ListsUpTo({Entry(<<>>, value) : value \in WalkValues}, n)}

\* a property key that is an array index: decimal digits without a leading zero
IsIntegerKey(key) ==
    /\ Len(key) > 0
    /\ \A i \in 1..Len(key) : IsDigit(key[i])
    /\ (Len(key) > 1 => key[1] # "0")
\* the position of property i in the enumeration: the integer keys in
\* ascending order first, then the other keys in the order of insertion
EnumeratedBefore(properties, i, j) ==
    IF IsIntegerKey(properties[i].key)
    THEN \/ ~IsIntegerKey(properties[j].key)
         \/ NumberOfDigits(properties[i].key) < NumberOfDigits(properties[j].key)
    ELSE ~IsIntegerKey(properties[j].key) /\ i < j
ObjectEntriesInInsertionOrder(properties) == properties
ObjectEntries(properties) ==
    LET position(i) == 1 + Cardinality({j \in 1..Len(properties) : EnumeratedBefore(properties, j, i)})
    IN  [k \in 1..Len(properties) |->
            properties[CHOOSE i \in 1..Len(properties) : position(i) = k]]
WalkHeaps(n) == [ObjectIds -> WalkObjects(n)]

\* an element of the queue; depth, parentVisit and index are not in the code:
\* they record where the element was enqueued from
QueueEntry(key, value, parent, depth, parentVisit, index) ==
    [key |-> key, value |-> value, parent |-> parent,
     depth |-> depth, parentVisit |-> parentVisit, index |-> index]

\* queue.push of every child, in the order of iteration
pushChildren(queue, children) == queue \o children

\* the children of current.value: the items of an array under the key of the
\* array, the entries of an object under their own keys
childrenOf(heap, current, visit) ==
    LET object == heap[current.value.v]
        entries == IF object.isArray THEN object.entries ELSE ObjectEntries(object.entries)
    IN  [i \in 1..Len(entries) |->
            QueueEntry(IF object.isArray THEN current.key ELSE entries[i].key,
                       entries[i].value, Some(current.value.v),
                       current.depth + 1, visit, i)]

\* the visitor of findNumberByHints
hintMatches(key, value) == ~value.ref /\ includes(toLowerCase(key), WalkHint)
findNumberVisitor(found, key, value) ==
    IF found # Null THEN found
    ELSE IF hintMatches(key, value) THEN Some(value.v)
    ELSE found

WalkCall(heap) ==
    [pc |-> "loop", heap |-> heap,
     queue |-> <<QueueEntry(<<>>, Reference(1), Null, 0, 0, 1)>>,
     visited |-> {}, count |-> 0, found |-> Null,
     visits |-> <<>>, expanded |-> <<>>]

\* one iteration of the while loop
VisitNode ==
    /\ walk.pc = "loop"
    /\ Len(walk.queue) > 0 /\ walk.count < MaxNodes
    /\ LET current == Head(walk.queue)
           rest == Tail(walk.queue)
           expands == current.value.ref /\ current.value.v \notin walk.visited
       IN  walk' = [walk EXCEPT
                !.count = @ + 1,
                !.found = findNumberVisitor(@, current.key, current.value),
                !.visits = Append(@, current),
                !.visited = IF expands THEN @ \cup {current.value.v} ELSE @,
                !.expanded = IF expands THEN Append(@, current.value.v) ELSE @,
                !.queue = IF expands
                          THEN pushChildren(rest, childrenOf(walk.heap, current, walk.count + 1))
                          ELSE rest]
    /\ UNCHANGED <<pc, call, norm, diagnostics, outcome, requests, stage,
                   apiResolved, fallbackResolved, fault, fin>>
    /\ UNCHANGED <<fetchJson, download, compat, responses, dedupe, duration>>

\* the loop ends: the queue is empty or maxNodes visits were made
WalkReturns ==
    /\ walk.pc = "loop"
    /\ ~(Len(walk.queue) > 0 /\ walk.count < MaxNodes)
    /\ walk' = [walk EXCEPT !.pc = "returned"]
    /\ UNCHANGED <<pc, call, norm, diagnostics, outcome, requests, stage,
                   apiResolved, fallbackResolved, fault, fin>>
    /\ UNCHANGED <<fetchJson, download, compat, responses, dedupe, duration>>

InitWalk ==
    /\ pc = "idle"
    /\ call = [sourceUrl |-> <<>>, variantId |-> Null, request |-> Null]
    /\ norm = Null
    /\ diagnostics = [pipeline |-> <<>>, warnings |-> <<>>, attempts |-> <<>>]
    /\ outcome = Null
    /\ requests = <<>>
    /\ stage = NoStage
    /\ apiResolved = Null
    /\ fallbackResolved = Null
    /\ fault = Null
    /\ fin = FinIdle
    /\ fetchJson = FetchIdle
    /\ download = DownloadIdle
    /\ compat = CompatIdle
    /\ responses = Unobserved
    /\ dedupe = DedupeIdle
    /\ duration = DurationIdle
    /\ walk \in {WalkCall(heap) : heap \in WalkHeaps(MaxEntries)}

NextWalk == VisitNode \/ WalkReturns

SpecWalk == InitWalk /\ [][NextWalk]_vars

\* the loop is synchronous code: it keeps running until it returns
SpecWalkFair == SpecWalk /\ WF_vars(NextWalk)

(***************************************************************************)
(* Claims about the tree walk                                              *)
(***************************************************************************)
Walking == walk.pc # "idle"
WalkReturned == walk.pc = "returned"
VisitorCalls == IF Walking THEN Len(walk.visits) ELSE 0
Visit(i) == walk.visits[i]
ExpandedOnce ==
    \A i, j \in 1..Len(walk.expanded) : walk.expanded[i] = walk.expanded[j] => i = j
\* the place of a queue element among the properties of its parent in the
\* order of insertion, and in the order integer keys first; an item of an
\* array has its index
ParentOf(e) == walk.heap[e.parent[1]]
InsertedAt(e) ==
    IF e.parent = Null \/ ParentOf(e).isArray THEN e.index
    ELSE CHOOSE i \in 1..Len(ParentOf(e).entries) : ParentOf(e).entries[i].key = e.key
EnumeratedAt(e) ==
    IF e.parent = Null \/ ParentOf(e).isArray THEN e.index
    ELSE 1 + Cardinality({j \in 1..Len(ParentOf(e).entries) :
                            EnumeratedBefore(ParentOf(e).entries, j, InsertedAt(e))})
\* breadth first: by depth, then by the visit of the parent, then by the
\* place among the children of the parent
Precedes(a, b, PlaceOf(_)) ==
    \/ a.depth < b.depth
    \/ a.depth = b.depth /\ a.parentVisit < b.parentVisit
    \/ a.depth = b.depth /\ a.parentVisit = b.parentVisit /\ PlaceOf(a) < PlaceOf(b)
BreadthFirstOrder(PlaceOf(_)) ==
    /\ \A i, j \in 1..VisitorCalls : i < j => Precedes(Visit(i), Visit(j), PlaceOf)
    /\ \A i \in 1..VisitorCalls : \A j \in 1..Len(walk.queue) :
            Precedes(Visit(i), walk.queue[j], PlaceOf)
MatchingVisits == {i \in 1..VisitorCalls : hintMatches(Visit(i).key, Visit(i).value)}
FirstMatchWins ==
    IF MatchingVisits = {} THEN walk.found = Null
    ELSE \E i \in MatchingVisits :
            /\ walk.found = Some(Visit(i).value.v)
            /\ \A j \in MatchingVisits : Visit(i).depth <= Visit(j).depth
            /\ \A j \in 1..Len(walk.queue) : Visit(i).depth <= walk.queue[j].depth
WalkBounded(PlaceOf(_)) ==
    Walking =>
        /\ VisitorCalls = walk.count
        /\ walk.count <= MaxNodes
        /\ ExpandedOnce
        /\ BreadthFirstOrder(PlaceOf)
        /\ FirstMatchWins

\* C27: the tree walk terminates on every input, also when an object or array
\* contains itself: the visitor is called at most maxNodes times, the
\* children of one object or array are enqueued at most once, the nodes are
\* visited breadth first (every node of depth d before any of depth d+1,
\* object keys in insertion order, array items in index order), and a
\* matching value at a smaller depth wins the first-match search over a
\* deeper one.
C27_WalkInInsertionOrder == []WalkBounded(InsertedAt) /\ <>WalkReturned

\* C27 as amended: the same, with the keys of an object in the order of
\* Object.entries: the integer keys in ascending numeric order first, then
\* the other keys in insertion order.
C27_WalkTerminatesBreadthFirst == []WalkBounded(EnumeratedAt) /\ <>WalkReturned

\* the first object contains the second and the second the first: the walk
\* stops after maxNodes visits with the reference back to the first object
\* still queued, the integer key of the first object was visited before the
\* key inserted in front of it, and the match at depth one has won over a
\* different matching value at depth two
C27_ShallowMatchWinsInCycle ==
    /\ WalkReturned
    /\ walk.count = MaxNodes
    /\ \E j \in 1..Len(walk.queue) : walk.queue[j].value = Reference(1)
    /\ \E i, j \in 1..VisitorCalls :
        /\ i < j /\ Visit(i).parentVisit = Visit(j).parentVisit
        /\ InsertedAt(Visit(j)) < InsertedAt(Visit(i))
    /\ \E i, j \in MatchingVisits :
        /\ Visit(i).depth = 1 /\ Visit(j).depth = 2
        /\ Visit(i).value # Visit(j).value
        /\ walk.found = Some(Visit(i).value.v)


(***************************************************************************)
(* Claims about the reason code of a failed resolution                     *)
(***************************************************************************)
ResolveFailed == Returned /\ ~Val(outcome).ok
ResolveReasonCodes ==
    {"invalid_url", "timeout", "network_error", "malformed_payload",
     "missing_profile_metrics"}
AttemptReasonCodes(attempts) ==
    {Val(attempts[i].reasonCode) : i \in {j \in 1..Len(attempts) : attempts[j].reasonCode # Null}}

OneResultEach ==
    \A a, b \in Settled :
        (a.stage = b.stage /\ a.kind = b.kind /\ a.position = b.position) => a = b
Resolved == Returned /\ Val(outcome).ok
ResolvedVia ==
    LET pipeline == Val(outcome).diagnostics.pipeline IN pipeline[Len(pipeline)]
\* the failure of the API stage, from the results recorded
ApiFailureOf(instancesResult) ==
    IF ~instancesResult.ok
    THEN [reasonCode |-> instancesResult.error.reasonCode,
          message |-> instancesResult.error.message]
    ELSE IF ApiInstanceSource = <<>>
    THEN [reasonCode |-> "malformed_payload",
          message |-> "MakerWorld API did not return usable variant data."]
    ELSE IF UnenrichedOf("api") = <<>>
    THEN [reasonCode |-> "malformed_payload",
          message |-> "MakerWorld API returned variants in an unsupported format."]
    ELSE [reasonCode |-> SelectionOf("api").reasonCode,
          message |-> SelectionOf("api").message]
\* the diagnostics of a success, from the results recorded
AttemptsOf(via, apiFailure) ==
    IF via = "api" THEN <<okAttempt("api", "Resolved via MakerWorld API.")>>
    ELSE <<failedAttempt("api", apiFailure.reasonCode, apiFailure.message),
           okAttempt("next_data", "Resolved via __NEXT_DATA__ fallback.")>>
PipelineOf(via) == IF via = "api" THEN <<"api">> ELSE <<"api", "next_data">>
WithoutUrlAndWarnings(data) == [data EXCEPT !.downloadUrl = Null, !.importWarnings = <<>>]
DeterminedBy(via, selection, data, diag) ==
    /\ selection.ok
    /\ WithoutUrlAndWarnings(data) = WithoutUrlAndWarnings(selection.data)
    /\ data.selectedVariantId = selection.data.selectedVariantId
    /\ data.availableVariants = selection.data.availableVariants
    /\ data.importWarnings = DedupeSeq(selection.warnings)
    /\ data.downloadUrl =
          IF via = "next_data" THEN selection.data.downloadUrl
          ELSE IF LookupUrl("instance3mf") # Null THEN LookupUrl("instance3mf")
          ELSE IF selection.data.downloadUrl # Null THEN selection.data.downloadUrl
          ELSE LookupUrl("designModel")
    /\ diag.warnings = DedupeSeq(selection.warnings)
    /\ diag.pipeline = PipelineOf(via)
    /\ diag.attempts = AttemptsOf(via, ApiFailureOf(InstancesResult))

\* C29: the outcome of a resolve call does not depend on the order in which
\* its concurrent requests complete: the selected variant, the order of
\* availableVariants, the warnings and the diagnostics of a resolution are
\* determined by the call and by the result each request got, whatever the
\* order in which the design and instances results and the profile results
\* of the candidates arrived.
C29_OutcomeIndependentOfArrival ==
    /\ OneResultEach
    /\ Resolved =>
          DeterminedBy(ResolvedVia, SelectionOf(ResolvedVia),
                       Val(outcome).data, Val(outcome).diagnostics)

\* a resolution whose stage waited for the profiles of two candidates and got
\* a full profile for the first and another result for the second
C29_TwoProfilesSettled ==
    /\ Resolved
    /\ HasSettled(ResolvedVia, "profile", 1)
    /\ HasSettled(ResolvedVia, "profile", 2)
    /\ ResultOf(ResolvedVia, "profile", 1) = apiOk(ProfileFull)
    /\ ResultOf(ResolvedVia, "profile", 2) # apiOk(ProfileFull)
    /\ Val(outcome).data.sourceProfileEstimatedHours = ToFixed4(Val(ProfileFull.estimatedHours))


(***************************************************************************)
(* Claims about the strict resolution mode                                 *)
(***************************************************************************)
StrictSuccess == Succeeded /\ fin.result.data.profileResolutionMode = "strict"
SelectedIsCompatible ==
    isCompatiblePrinterName(fin.result.data.sourceProfilePrinter, PRINTER_MODEL)
SelectedExplicitly ==
    fin.result.data.selectionStrategy \in {"requested_variant_id", "user_selected_variant"}
WarnedInferred ==
    \E i \in 1..Len(fin.result.warnings) : fin.result.warnings[i] = WarnInferred

\* C30: in every successful resolution with profileResolutionMode strict
\* either the printer of the selected variant is compatible with the
\* configured target printer, or the selected variant is the explicitly
\* requested one (selectionStrategy requested_variant_id or
\* user_selected_variant, never shortest_time_fallback) and the warnings
\* contain the 'inferred from explicitly selected' warning.
C30_StrictMeansCompatibleOrExplicit ==
    StrictSuccess =>
        \/ SelectedIsCompatible
        \/ /\ SelectedExplicitly
           /\ WarnedInferred
           /\ WarnInferred \in Range(fin.result.data.importWarnings)

\* strict mode with a selected variant of another printer: the caller chose
\* it and the inferred warning is given
C30_ExplicitIncompatibleInStrictMode ==
    /\ StrictSuccess
    /\ ~SelectedIsCompatible
    /\ fin.result.data.selectionStrategy = "user_selected_variant"
    /\ WarnedInferred

====
